---- MODULE Spec2Model ----
(***************************************************************************)
(* A model of simple-spotify-downloader: the audio acquisition engine      *)
(* (modules/downloader.py) with its storage quota, the metadata cache      *)
(* rows it deletes on eviction (modules/database.py), and the orchestrator *)
(* routines of spotify-bot.py that drive them.                             *)
(*                                                                         *)
(* The downloads tree is modelled per track id: <id>.mp3 under TRACKS_DIR  *)
(* (creation time and byte size), <id>.jpg under COVERS_DIR, and the       *)
(* tracks row keyed by the id.  Archive files written by                   *)
(* download_and_zip_tracks live under TRACKS_DIR as well.                  *)
(***************************************************************************)
EXTENDS Integers, Sequences, FiniteSets, TLC

\* ------------------------------------------------------------------ bounds

\* Number of distinct track ids.
NTracks == 3

Tracks == 1..NTracks

\* Number of distinct track ids the users of a run ask for.
NRequested == 2

Requested == 1..NRequested

\* Concurrent single-track deliveries (download_and_send_track).
NDeliveries == 2

Deliveries == 1..NDeliveries

\* Concurrent archive operations (download_and_zip_tracks).
NArchives == 2

Archives == 1..NArchives

\* Longest track list handed to an archive operation.
MaxBatch == 2

\* Number of audio files written over a run (each write takes the next
\* creation time).
MaxClock == 3

\* Byte sizes a transcoded audio file may have (600,000 is the size the
\* repository's quota test writes).
Sizes == {300000, 600000}

\* ---------------------------------------------------------------- constants

CLEANUP_BATCH == 2

\* A cover file as the quota test writes it: one byte.
CoverBytes == 1

MAX_ZIP_SIZE == 48 * 1024 * 1024

\* Byte sizes of the audio files the downloads of a run produce, and the
\* ceilings the engine of a run is built with.
DownloadSizes == {20 * 1024 * 1024, 30 * 1024 * 1024}

\* The largest total_tracks a collection reports.
MaxTotal == 12

\* The longest collection name, in characters.
MaxNameLen == 2

\* The most files a batch has downloaded.
MaxFiles == 4

\* The threshold used when ZIP_THRESHOLD is unset or 0.
DEFAULT_ZIP_THRESHOLD == 10

\* A column holding NULL (None).
NULL == "NULL"

\* The number of users.
NUsers == 1

\* user_id values.
UserIds == 1..NUsers

\* Before any call of a database function.
NoDbCall ==
    [op |-> "none", key |-> 0, storage_error |-> FALSE, raised |-> FALSE,
     result |-> <<>>]

\* max_storage_mb absent (None).
Absent == <<>>

VARIABLES
    max_storage_mb,      \* the max_storage_mb the Downloader was built with
    max_storage_bytes,   \* Downloader.max_storage_bytes
    quota_paused,        \* the engine's pause flag
    mp3_ctime,           \* [Tracks -> Nat]: st_ctime of <id>.mp3, 0 = no file
    mp3_size,            \* [Tracks -> Nat]: st_size of <id>.mp3, 0 = no file
    covers,              \* ids with a <id>.jpg under COVERS_DIR
    rows,                \* ids with a row in the tracks table
    zips,                \* archive files under TRACKS_DIR
    unlink_fails,        \* ids whose <id>.mp3 unlink raises OSError
    cover_unlink_fails,  \* unlinking a cover raises OSError
    db_fails,            \* the store raises sqlite3.Error
    removed_log,         \* .mp3 files unlinked by the enforcement pass of the
                         \* step just taken (empty when none ran)
    db_delete_log,       \* database.delete_track calls of that pass
    clock,               \* creation time of the newest audio file written
    d_pc,                \* download_and_send_track: where each call stands
    d_track,             \* its track_id
    d_hit,               \* its download_track call logged "found in cache"
    d_result,            \* how it ended
    a_pc,                \* download_and_zip_tracks: where each call stands
    a_tracks,            \* its tracks
    a_sub,               \* its download_and_update_status tasks
    a_paths,             \* downloaded_paths
    a_chunks,            \* zip_chunks
    a_part,              \* part_num of the archive in hand
    zip_threshold_env,   \* the ZIP_THRESHOLD environment variable
    h_pc,                \* a playlist or album link handler: where it stands
    h_kind,              \* "playlist" or "album"
    h_total,             \* total_tracks of the collection's info, -1 before
    h_offered,           \* the zip/one-by-one keyboard was put on the status message
    collection_name,     \* the name handed to download_and_zip_tracks
    sanitized_collection_name,  \* its sanitized form, once computed
    file_sizes,          \* st_size of each downloaded path, in list order
    grouped,             \* zip_chunks computed from them, once computed
    db_state,            \* the store: "down" before init_db, then "ready" or "aborted"
    tracks_tbl,          \* the tracks table: per track_id no row, or its row
    users_tbl,           \* the users table: per user_id no row, or its row
    db_call,             \* the last call of a database function and how it ended
    latest,              \* per track_id, the track_info of the last upsert_track call, none after a delete_track call
    clean,               \* per track_id, whether that last call met no storage error
    text,                \* the message text, a sequence of atoms
    patched,             \* which extractor a test has replaced
    l_pc,                \* position of the text: idle, received, classified, handled
    ids,                 \* what each extractor returned
    is_link,             \* what is_spotify_link returned
    route,               \* where process_track_link sent the text
    l_status,            \* the status message of process_track_link
    l_replies,           \* replies of process_track_link to the user
    f_handler,           \* the handler that runs
    f_pc,                \* where it stands
    f_status,            \* its status_msg: none, shown, deleted
    f_choice,            \* the message under the pressed button, when it is another one than status_msg
    f_replies,           \* what the handler has answered
    f_report,            \* the last text of status_msg set at the end of a flow
    f_total,             \* len(tracks) of a batch
    f_completed,         \* tracks of the batch gone through
    f_failed,            \* failed_count of the batch
    f_not_found,         \* tracks of the batch the search found nothing for
    f_audio,             \* tracks of the batch sent or fetched for the archive
    f_error,             \* an error reached the try block of the handler
    f_caught,            \* the except block of the handler ran
    t_call,              \* the last call of download_and_send_track and what it met
    t_log,               \* what that call did with Telegram, in order
    t_raised,            \* that call raised
    t_steps,             \* the steps of that call, in order
    m_env,               \* the environment the process starts in
    m_pc,                \* where the process stands
    m_retry_delay,       \* retry_delay of main, 0 before main
    m_slept,             \* the delay of the last asyncio.sleep, 0 when none
    m_errors,            \* network errors of polling so far
    m_event,             \* how the last await of main ended
    m_raised,            \* what main let out
    m_engine,            \* the Downloader: none, built, closed
    c_total,             \* send_tracks_one_by_one: total_tracks, -1 before a call
    c_task,              \* where each bounded_download task stands
    completed_count,     \* completed_count
    failed_count,        \* failed_count
    c_pc,                \* where send_tracks_one_by_one stands
    c_report,            \* the final edit of the status message
    p_tracks,            \* per batch, the number of its per-track tasks, 0 before it starts
    p_waiting,           \* per batch, tasks waiting for the semaphore
    p_inside,            \* per batch, tasks inside the semaphore and not in the pool
    p_queued,            \* per batch, work items in the queue of the executor
    p_running,           \* per batch, work items running on a worker thread
    q_pc,                \* where a call of _enforce_storage_quota stands: idle, while, batch, returned
    q_deleted,           \* deleted_something of the turn of the loop in hand
    q_passes             \* the turns of the while loop the call has taken

fsVars == <<mp3_ctime, mp3_size, covers, rows, zips>>
envVars == <<unlink_fails, cover_unlink_fails, db_fails>>
cfgVars == <<max_storage_mb, max_storage_bytes>>
quotaVars == <<cfgVars, quota_paused, removed_log, db_delete_log>>

\* No enforcement pass in this step.
NoPass == removed_log' = <<>> /\ db_delete_log' = <<>>
deliveryVars == <<d_pc, d_track, d_hit, d_result>>
archiveVars == <<a_pc, a_tracks, a_sub, a_paths, a_chunks, a_part>>
routeVars == <<zip_threshold_env, h_pc, h_kind, h_total, h_offered>>
nameVars == <<collection_name, sanitized_collection_name>>
chunkVars == <<file_sizes, grouped>>
storeVars == <<db_state, tracks_tbl, users_tbl, db_call, latest, clean>>
linkVars == <<text, patched, l_pc, ids, is_link, route, l_status, l_replies>>
flowVars == <<f_handler, f_pc, f_status, f_choice, f_replies, f_report, f_total, f_completed, f_failed, f_not_found, f_audio, f_error, f_caught, t_call, t_log, t_raised, t_steps>>
mainVars == <<m_env, m_pc, m_retry_delay, m_slept, m_errors, m_event, m_raised, m_engine>>
countVars == <<c_total, c_task, completed_count, failed_count, c_pc, c_report>>
poolVars == <<p_tracks, p_waiting, p_inside, p_queued, p_running>>
loopVars == <<q_pc, q_deleted, q_passes>>
handlerVars == <<routeVars, nameVars, chunkVars, storeVars, linkVars, flowVars, mainVars, countVars, poolVars, loopVars>>

\* ------------------------------------------------------------- Downloader

\* A mutant of the ceiling: a value below zero is not floored to 0.
MaxStorageBytesUnfloored(mb) ==
    IF mb = Absent THEN 0 ELSE mb[1] * 1024 * 1024

\* Downloader.__init__: the byte ceiling, 0 meaning "quota disabled".
MaxStorageBytes(mb) ==
    IF mb = Absent \/ mb[1] <= 0
    THEN 0
    ELSE mb[1] * 1024 * 1024

\* TRACKS_DIR.glob('*.mp3')
Mp3Files(ct) == {t \in Tracks : ct[t] > 0}

RECURSIVE SumOver(_, _)
SumOver(f, S) ==
    IF S = {} THEN 0
    ELSE LET x == CHOOSE y \in S : TRUE IN f[x] + SumOver(f, S \ {x})

RECURSIVE ZipBytes(_)
ZipBytes(zs) ==
    IF zs = {} THEN 0
    ELSE LET z == CHOOSE y \in zs : TRUE IN z.bytes + ZipBytes(zs \ {z})

\* Downloader._directory_size(DOWNLOADS_ROOT): every file under the root,
\* audio, covers and archives alike.
DirectorySize(st) ==
    SumOver(st.size, Tracks) + CoverBytes * Cardinality(st.covers) + ZipBytes(st.zips)

\* A mutant of the sort: by file name instead of by creation time.
RECURSIVE SortedByName(_, _)
SortedByName(ct, S) ==
    IF S = {} THEN <<>>
    ELSE LET o == CHOOSE x \in S : \A y \in S : x <= y
         IN <<o>> \o SortedByName(ct, S \ {o})

\* sorted(TRACKS_DIR.glob('*.mp3'), key=lambda path: path.stat().st_ctime)
RECURSIVE SortedByCtime(_, _)
SortedByCtime(ct, S) ==
    IF S = {} THEN <<>>
    ELSE LET o == CHOOSE x \in S : \A y \in S : ct[x] <= ct[y]
         IN <<o>> \o SortedByCtime(ct, S \ {o})

\* database.delete_track(track_id): the row goes unless the store raises,
\* and the error is swallowed either way.
DeleteTrack(rs, t, broken) == IF broken THEN rs ELSE rs \ {t}

\* What the log keeps of an unlinked <p>.mp3: its id, its creation time and
\* whether <p>.jpg existed when it went.
Removal(st, p) == [id |-> p, ctime |-> st.ctime[p], cover |-> p \in st.covers]

\* A mutant of the eviction of one file: the cover is left behind.
EvictOneKeepCover(st, p, env) ==
    IF p \in env.unlink_fails
    THEN st
    ELSE [st EXCEPT !.ctime[p] = 0, !.size[p] = 0,
                    !.deleted_something = TRUE,
                    !.removed = Append(@, Removal(st, p)),
                    !.db_deleted = Append(@, p),
                    !.rows = DeleteTrack(@, p, env.db_fails)]

\* One turn of the for loop: path.unlink(), database.delete_track(path.stem),
\* then the cover; an OSError of either unlink ends the turn.
EvictOne(st, p, env) ==
    IF p \in env.unlink_fails
    THEN st
    ELSE LET gone == [st EXCEPT !.ctime[p] = 0, !.size[p] = 0,
                                !.deleted_something = TRUE,
                                !.removed = Append(@, Removal(st, p)),
                                !.db_deleted = Append(@, p),
                                !.rows = DeleteTrack(@, p, env.db_fails)]
         IN IF p \in gone.covers /\ ~env.cover_unlink_fails
            THEN [gone EXCEPT !.covers = @ \ {p}]
            ELSE gone

RECURSIVE EvictBatch(_, _, _)
EvictBatch(st, batch, env) ==
    IF batch = <<>> THEN st
    ELSE EvictBatch(EvictOne(st, Head(batch), env), Tail(batch), env)

\* A mutant of the batch: every .mp3 found is taken in one turn.
WholeList(track_files) == track_files

\* track_files[:CLEANUP_BATCH]
FirstBatch(track_files) ==
    SubSeq(track_files, 1,
           IF Len(track_files) < CLEANUP_BATCH THEN Len(track_files) ELSE CLEANUP_BATCH)

\* One turn of the while loop: deleted_something = False, then the batch.
Pass(st, env) ==
    EvictBatch([st EXCEPT !.deleted_something = FALSE, !.passes = @ + 1],
               FirstBatch(SortedByCtime(st.ctime, Mp3Files(st.ctime))), env)

\* A mutant of the stall guard: a first turn that deleted nothing is tried again.
StalledTwice(after) == ~after.deleted_something /\ after.passes >= 2

\* A mutant of the stall guard: the loop never gives up.
NeverStalled(after) == FALSE

\* Lines 181-185: if not deleted_something: warning, break.
Stalled(after) == ~after.deleted_something

\* A mutant of the loop: one turn and no more.
EvictionOnce(st, ceiling, env) ==
    IF DirectorySize(st) <= ceiling \/ Mp3Files(st.ctime) = {} THEN st
    ELSE Pass(st, env)

\* The while loop of _enforce_storage_quota.
RECURSIVE EvictionLoop(_, _, _)
EvictionLoop(st, ceiling, env) ==
    IF DirectorySize(st) <= ceiling THEN st
    ELSE LET track_files == SortedByCtime(st.ctime, Mp3Files(st.ctime))
         IN IF track_files = <<>> THEN st
            ELSE LET after == Pass(st, env)
                 IN IF Stalled(after) THEN after
                    ELSE EvictionLoop(after, ceiling, env)

\* Whether automatic enforcement is suspended (pause_quota_enforcement).
EnforcementSuspended(paused) == paused

\* Downloader._enforce_storage_quota on the tree st.
EnforceStorageQuota(st, ceiling, paused, env) ==
    LET fresh == [st EXCEPT !.removed = <<>>, !.db_deleted = <<>>,
                            !.deleted_something = FALSE, !.passes = 0]
    IN IF ceiling = 0 THEN fresh
       ELSE IF EnforcementSuspended(paused) THEN fresh
       ELSE IF DirectorySize(fresh) <= ceiling THEN fresh
       ELSE EvictionLoop(fresh, ceiling, env)

\* The tree and the environment as records, and back.
Tree ==
    [ctime |-> mp3_ctime, size |-> mp3_size, covers |-> covers, rows |-> rows,
     zips |-> zips, removed |-> <<>>, db_deleted |-> <<>>,
     deleted_something |-> FALSE, passes |-> 0]

Env ==
    [unlink_fails |-> unlink_fails, cover_unlink_fails |-> cover_unlink_fails,
     db_fails |-> db_fails]

\* The effect of one call of _enforce_storage_quota on the state, the pause
\* flag being as given.
EnforcedWith(st, paused) ==
    \E r \in {EnforceStorageQuota(st, max_storage_bytes, paused, Env)} :
       /\ mp3_ctime' = r.ctime
       /\ mp3_size' = r.size
       /\ covers' = r.covers
       /\ rows' = r.rows
       /\ zips' = r.zips
       /\ removed_log' = r.removed
       /\ db_delete_log' = r.db_deleted

\* A mutant of the pass: it holds off while a delivery has a file to send.
EnforcedUnlessInUse(st) ==
    IF \E e \in DOMAIN d_pc : d_pc[e] = "sending"
    THEN /\ mp3_ctime' = st.ctime
         /\ mp3_size' = st.size
         /\ covers' = st.covers
         /\ rows' = st.rows
         /\ zips' = st.zips
         /\ NoPass
    ELSE EnforcedWith(st, quota_paused)

Enforced(st) == EnforcedWith(st, quota_paused)

\* No orchestrator routine is running.
NoCalls ==
    /\ d_pc = [d \in Deliveries |-> "idle"]
    /\ d_track = [d \in Deliveries |-> 0]
    /\ d_hit = [d \in Deliveries |-> FALSE]
    /\ d_result = [d \in Deliveries |-> "none"]
    /\ a_pc = [a \in Archives |-> "idle"]
    /\ a_tracks = [a \in Archives |-> <<>>]
    /\ a_sub = [a \in Archives |-> <<>>]
    /\ a_paths = [a \in Archives |-> <<>>]
    /\ a_chunks = [a \in Archives |-> <<>>]
    /\ a_part = [a \in Archives |-> 0]

\* No link handler has run.
NoRouting ==
    /\ zip_threshold_env = Absent
    /\ h_pc = "idle"
    /\ h_kind = "none"
    /\ h_total = -1
    /\ h_offered = FALSE

\* No collection name has been sanitized.
NoNaming ==
    /\ collection_name = <<>>
    /\ sanitized_collection_name = <<>>

\* No list of files has been grouped.
NoGrouping ==
    /\ file_sizes = <<>>
    /\ grouped = <<>>

\* The store as init_db left it, no other database function called yet.
NoStore ==
    /\ db_state = "ready"
    /\ tracks_tbl = [t \in Requested |-> Absent]
    /\ users_tbl = [u \in UserIds |-> Absent]
    /\ db_call = NoDbCall
    /\ latest = [t \in Requested |-> Absent]
    /\ clean = [t \in Requested |-> TRUE]

LinkKinds == {"track", "playlist", "album"}

Unpatched == [kind \in LinkKinds |-> "real"]

NoLinks ==
    /\ text = <<>>
    /\ patched = Unpatched
    /\ l_pc = "idle"
    /\ ids = [kind \in LinkKinds |-> Absent]
    /\ is_link = FALSE
    /\ route = "none"
    /\ l_status = "none"
    /\ l_replies = {}

\* download_and_send_track has not been called.
NoTrackCall ==
    [path |-> "none", cached |-> FALSE, cover_fails |-> FALSE, has_status |-> FALSE,
     bad_request |-> FALSE]

\* No handler runs.
NoFlow ==
    /\ f_handler = "none"
    /\ f_pc = "idle"
    /\ f_status = "none"
    /\ f_choice = "none"
    /\ f_replies = {}
    /\ f_report = "none"
    /\ f_total = 0
    /\ f_completed = 0
    /\ f_failed = 0
    /\ f_not_found = 0
    /\ f_audio = 0
    /\ f_error = FALSE
    /\ f_caught = FALSE
    /\ t_call = NoTrackCall
    /\ t_log = <<>>
    /\ t_raised = FALSE
    /\ t_steps = <<>>

\* The service is up: the module is loaded and main polls.
NoMain ==
    /\ m_env = [token |-> TRUE, client_id |-> TRUE, client_secret |-> TRUE,
                storage_limit |-> "unset"]
    /\ m_pc = "polling"
    /\ m_retry_delay = 3
    /\ m_slept = 0
    /\ m_errors = 0
    /\ m_event = "none"
    /\ m_raised = "none"
    /\ m_engine = "built"

\* The number of tracks of one batch whose counters are followed.
MaxCountTracks == 4

CountTasks == 1..MaxCountTracks

\* The batches whose tasks share the worker pool, and the tracks of one.
NPoolBatches == 2

PoolBatches == 1..NPoolBatches

MaxPoolTracks == 11

\* asyncio.Semaphore(10)
SemaphoreSlots == 10

\* ThreadPoolExecutor(max_workers=4)
MaxWorkers == 4

\* send_tracks_one_by_one has not been called.
NoCount ==
    /\ c_total = -1
    /\ c_task = [i \in CountTasks |-> "none"]
    /\ completed_count = 0
    /\ failed_count = 0
    /\ c_pc = "idle"
    /\ c_report = <<>>

\* No batch has started and the pool is idle.
NoPool ==
    /\ p_tracks = [b \in PoolBatches |-> 0]
    /\ p_waiting = [b \in PoolBatches |-> 0]
    /\ p_inside = [b \in PoolBatches |-> 0]
    /\ p_queued = [b \in PoolBatches |-> 0]
    /\ p_running = [b \in PoolBatches |-> 0]

\* No call of _enforce_storage_quota is being stepped through.
NoLoop ==
    /\ q_pc = "idle"
    /\ q_deleted = FALSE
    /\ q_passes = 0

\* --------------------------------------------- quota enforcement on a tree

\* A direct call of _enforce_storage_quota, as the quota test makes it.
EnforceQuotaCall ==
    /\ UNCHANGED handlerVars
    /\ Enforced(Tree)
    /\ UNCHANGED <<cfgVars, quota_paused, envVars>>
    /\ UNCHANGED <<clock, deliveryVars, archiveVars>>

\* Ceilings the quota specification is explored with.
QuotaConfigs == {Absent, <<0>>, <<-1>>, <<1>>}

\* Injective creation times on the present files.
CtimeAssignments(P) ==
    {ct \in [Tracks -> 0..Cardinality(P)] :
        /\ \A t \in Tracks : (ct[t] > 0) <=> (t \in P)
        /\ \A t, u \in P : t # u => ct[t] # ct[u]}

SizeAssignments(P) ==
    {sz \in [Tracks -> Sizes \cup {0}] : \A t \in Tracks : (sz[t] > 0) <=> (t \in P)}

\* Any cached tree: each present audio file has its row (metadata is upserted
\* before a download), a cover or none, and may refuse to be unlinked.
InitQuota ==
    /\ max_storage_mb \in QuotaConfigs
    /\ max_storage_bytes = MaxStorageBytes(max_storage_mb)
    /\ quota_paused = FALSE
    /\ \E P \in SUBSET Tracks :
          /\ mp3_ctime \in CtimeAssignments(P)
          /\ mp3_size \in SizeAssignments(P)
          /\ covers \in SUBSET P
          /\ rows = P
          /\ unlink_fails \in SUBSET P
    /\ zips = {}
    /\ cover_unlink_fails \in BOOLEAN
    /\ db_fails \in BOOLEAN
    /\ removed_log = <<>>
    /\ db_delete_log = <<>>
    /\ clock = Cardinality(Mp3Files(mp3_ctime))
    /\ NoCalls
    /\ NoRouting /\ NoNaming /\ NoGrouping /\ NoStore /\ NoLinks /\ NoFlow /\ NoMain /\ NoCount /\ NoPool /\ NoLoop

engineVars == <<fsVars, envVars, quotaVars, clock, deliveryVars, archiveVars>>
vars == <<engineVars, handlerVars>>

NextQuota == EnforceQuotaCall

SpecQuota == InitQuota /\ [][NextQuota]_vars

\* ------------------------------------ the eviction loop, a turn at a time

\* The tree as the call stepped through sees it.
LoopTree ==
    [Tree EXCEPT !.removed = removed_log, !.db_deleted = db_delete_log,
                 !.deleted_something = q_deleted, !.passes = q_passes]

\* Lines 141-146: the call returns at once with the quota off or the
\* directory at or under the ceiling, and enters the while loop otherwise.
QuotaEnters ==
    /\ q_pc = "idle"
    /\ q_pc' = IF \/ max_storage_bytes = 0
                  \/ EnforcementSuspended(quota_paused)
                  \/ DirectorySize(Tree) <= max_storage_bytes
               THEN "returned" ELSE "while"
    /\ UNCHANGED <<q_deleted, q_passes>>
    /\ UNCHANGED <<engineVars, routeVars, nameVars, chunkVars, storeVars, linkVars, flowVars, mainVars, countVars, poolVars>>

\* Lines 154-161: the test of the while loop, the glob and "if not
\* track_files: break".
WhileTest ==
    /\ q_pc = "while"
    /\ q_pc' = IF \/ DirectorySize(Tree) <= max_storage_bytes
                  \/ Mp3Files(mp3_ctime) = {}
               THEN "returned" ELSE "batch"
    /\ UNCHANGED <<q_deleted, q_passes>>
    /\ UNCHANGED <<engineVars, routeVars, nameVars, chunkVars, storeVars, linkVars, flowVars, mainVars, countVars, poolVars>>

\* Lines 163-185: the batch of the turn, the new total and the stall guard.
BatchTurn ==
    /\ q_pc = "batch"
    /\ \E after \in {Pass(LoopTree, Env)} :
          /\ mp3_ctime' = after.ctime
          /\ mp3_size' = after.size
          /\ covers' = after.covers
          /\ rows' = after.rows
          /\ zips' = after.zips
          /\ removed_log' = after.removed
          /\ db_delete_log' = after.db_deleted
          /\ q_deleted' = after.deleted_something
          /\ q_passes' = after.passes
          /\ q_pc' = IF Stalled(after) THEN "returned" ELSE "while"
    /\ UNCHANGED <<cfgVars, quota_paused, envVars, clock, deliveryVars, archiveVars>>
    /\ UNCHANGED <<routeVars, nameVars, chunkVars, storeVars, linkVars, flowVars, mainVars, countVars, poolVars>>

NextLoop == QuotaEnters \/ WhileTest \/ BatchTurn

\* Ceilings the loop is stepped through with: the quota off, and 1 MiB.
LoopConfigs == {<<0>>, <<1>>}

\* Any cached tree a call can meet, as in InitQuota, with what has no part in
\* the loop's control held still: the store answers, and the covers are
\* all there or all missing.
InitLoop ==
    /\ max_storage_mb \in LoopConfigs
    /\ max_storage_bytes = MaxStorageBytes(max_storage_mb)
    /\ quota_paused = FALSE
    /\ \E P \in SUBSET Tracks :
          /\ mp3_ctime \in CtimeAssignments(P)
          /\ mp3_size \in SizeAssignments(P)
          /\ covers \in {{}, P}
          /\ rows = P
          /\ unlink_fails \in SUBSET P
    /\ zips = {}
    /\ cover_unlink_fails \in BOOLEAN
    /\ db_fails = FALSE
    /\ removed_log = <<>>
    /\ db_delete_log = <<>>
    /\ clock = Cardinality(Mp3Files(mp3_ctime))
    /\ NoCalls
    /\ NoRouting /\ NoNaming /\ NoGrouping /\ NoStore /\ NoLinks /\ NoFlow /\ NoMain /\ NoCount /\ NoPool /\ NoLoop

SpecLoop == InitLoop /\ [][NextLoop]_vars

\* The call is synchronous code on one thread: once entered it keeps running.
FairLoop == SpecLoop /\ WF_vars(NextLoop)

\* ------------------------------------------------ the engine's downloads

\* The state without a call of _enforce_storage_quota.
Stored(st) ==
    /\ mp3_ctime' = st.ctime
    /\ mp3_size' = st.size
    /\ covers' = st.covers
    /\ rows' = st.rows
    /\ zips' = st.zips
    /\ NoPass

\* download_track's enforce_quota flag: enforcement runs only when it is set.
EnforceIfRequested(enforce_quota, st) ==
    IF enforce_quota THEN Enforced(st) ELSE Stored(st)

\* A mutant of the cache check: the target is never found.
CacheMiss(ct, track_id) == FALSE

\* download_track: output_path.exists()
CacheHit(ct, track_id) == ct[track_id] > 0

\* A mutant of the write: the other audio files are cleared away.
WrittenAlone(st, track_id, sz) ==
    [st EXCEPT !.ctime = [t \in Tracks |-> IF t = track_id THEN clock + 1 ELSE 0],
               !.size = [t \in Tracks |-> IF t = track_id THEN sz ELSE 0]]

\* ydl.download in the worker thread: <track_id>.mp3 written, sz bytes, with
\* the next creation time.
Written(st, track_id, sz) ==
    [st EXCEPT !.ctime[track_id] = clock + 1, !.size[track_id] = sz]

\* database.upsert_track: the row is there afterwards unless the store raises.
UpsertTrack(rs, t, broken) == IF broken THEN rs ELSE rs \cup {t}

\* ------------------------------------------------ download_and_send_track

\* Lines 588-595: send what is cached, else search the video platform.
Probe(d, t) ==
    d_pc' = [d_pc EXCEPT ![d] = IF mp3_ctime[t] > 0 THEN "sending" ELSE "searching"]

\* Lines 561-578: metadata from the cache or live (the live fetch may raise),
\* then the cover, fetched when the track has an image_url and no cover file.
DeliveryStart(d, t) ==
    /\ UNCHANGED handlerVars
    /\ d_pc[d] = "idle"
    /\ d_track' = [d_track EXCEPT ![d] = t]
    /\ d_hit' = [d_hit EXCEPT ![d] = FALSE]
    /\ LET cached == t \in rows /\ ~db_fails
       IN \E fetched, image_url \in BOOLEAN :
            IF ~cached /\ ~fetched
            THEN /\ d_pc' = [d_pc EXCEPT ![d] = "done"]
                 /\ d_result' = [d_result EXCEPT ![d] = "error"]
                 /\ UNCHANGED rows
            ELSE /\ rows' = IF cached THEN rows ELSE UpsertTrack(rows, t, db_fails)
                 /\ d_result' = [d_result EXCEPT ![d] = "none"]
                 /\ IF image_url /\ t \notin covers
                    THEN d_pc' = [d_pc EXCEPT ![d] = "cover"]
                    ELSE Probe(d, t)
    /\ UNCHANGED <<mp3_ctime, mp3_size, covers, zips, envVars, cfgVars, quota_paused, clock, archiveVars>>
    /\ NoPass

\* download_cover_image returns (the file is written) or raises ClientError
\* or a timeout (no thumbnail); lines 588-595 follow.
DeliveryCoverDone(d) ==
    /\ UNCHANGED handlerVars
    /\ d_pc[d] = "cover"
    /\ \E written \in BOOLEAN :
          covers' = IF written THEN covers \cup {d_track[d]} ELSE covers
    /\ Probe(d, d_track[d])
    /\ UNCHANGED <<mp3_ctime, mp3_size, rows, zips, envVars, cfgVars, quota_paused, clock>>
    /\ NoPass
    /\ UNCHANGED <<d_track, d_hit, d_result, archiveVars>>

\* search_youtube returns: nothing found, an error, or a url, with which
\* download_track is called: a cache hit enforces the quota and returns the
\* path, a miss hands ydl.download to the worker pool.
DeliverySearchDone(d) ==
    /\ UNCHANGED handlerVars
    /\ d_pc[d] = "searching"
    /\ \E outcome \in {"none", "error", "url"} :
          IF outcome # "url"
          THEN /\ d_pc' = [d_pc EXCEPT ![d] = "done"]
               /\ d_result' = [d_result EXCEPT ![d] =
                                 IF outcome = "none" THEN "not_found" ELSE "error"]
               /\ UNCHANGED <<fsVars, d_hit>>
               /\ NoPass
          ELSE IF CacheHit(mp3_ctime, d_track[d])
          THEN /\ d_hit' = [d_hit EXCEPT ![d] = TRUE]
               /\ EnforceIfRequested(TRUE, Tree)
               /\ d_pc' = [d_pc EXCEPT ![d] = "sending"]
               /\ UNCHANGED d_result
          ELSE /\ d_pc' = [d_pc EXCEPT ![d] = "downloading"]
               /\ UNCHANGED <<fsVars, d_hit, d_result>>
               /\ NoPass
    /\ UNCHANGED <<cfgVars, quota_paused, envVars, clock>>
    /\ UNCHANGED <<d_track, archiveVars>>

\* The worker thread finishes ydl.download: the file is there.
DeliveryWorkerWrites(d) ==
    /\ UNCHANGED handlerVars
    /\ d_pc[d] = "downloading"
    /\ clock < MaxClock
    /\ \E sz \in DownloadSizes : Stored(Written(Tree, d_track[d], sz))
    /\ clock' = clock + 1
    /\ d_pc' = [d_pc EXCEPT ![d] = "downloaded"]
    /\ UNCHANGED <<cfgVars, quota_paused, envVars>>
    /\ UNCHANGED <<d_track, d_hit, d_result, archiveVars>>

\* ydl.download raises: download_track raises with it.
DeliveryDownloadFails(d) ==
    /\ UNCHANGED handlerVars
    /\ d_pc[d] = "downloading"
    /\ d_pc' = [d_pc EXCEPT ![d] = "done"]
    /\ d_result' = [d_result EXCEPT ![d] = "error"]
    /\ UNCHANGED <<fsVars, envVars, cfgVars, quota_paused, clock, d_track, d_hit, archiveVars>>
    /\ NoPass

\* download_track resumes after run_in_executor: the quota is enforced and
\* output_path returned.
DeliveryResumes(d) ==
    /\ UNCHANGED handlerVars
    /\ d_pc[d] = "downloaded"
    /\ EnforceIfRequested(TRUE, Tree)
    /\ d_pc' = [d_pc EXCEPT ![d] = "sending"]
    /\ UNCHANGED <<cfgVars, quota_paused, envVars, clock>>
    /\ UNCHANGED <<d_track, d_hit, d_result, archiveVars>>

\* answer_audio uploads FSInputFile(mp3_path), which must still be there.
DeliverySend(d) ==
    /\ UNCHANGED handlerVars
    /\ d_pc[d] = "sending"
    /\ d_pc' = [d_pc EXCEPT ![d] = "done"]
    /\ d_result' = [d_result EXCEPT ![d] =
                      IF mp3_ctime[d_track[d]] > 0 THEN "sent" ELSE "error"]
    /\ UNCHANGED <<fsVars, envVars, cfgVars, quota_paused, clock, d_track, d_hit, archiveVars>>
    /\ NoPass

\* ------------------------------------------------ download_and_zip_tracks

\* pause_quota_enforcement()
PauseQuotaEnforcement == quota_paused' = TRUE

\* resume_quota_enforcement(): enforcement is on again and one pass runs.
ResumeQuotaEnforcement(st) ==
    /\ quota_paused' = FALSE
    /\ EnforcedWith(st, FALSE)

\* The track lists an archive operation is given.
BatchLists == UNION {[1..n -> Requested] : n \in 1..MaxBatch}

SubDone(status) == status \in {"cached", "hit", "ok", "failed"}

\* Lines 457-463: enforcement is paused and the first status edit awaited.
ArchiveStart(a, tracks) ==
    /\ UNCHANGED handlerVars
    /\ a_pc[a] = "idle"
    /\ PauseQuotaEnforcement
    /\ a_pc' = [a_pc EXCEPT ![a] = "prepare"]
    /\ a_tracks' = [a_tracks EXCEPT ![a] = tracks]
    /\ UNCHANGED <<fsVars, envVars, cfgVars, clock, deliveryVars>>
    /\ NoPass
    /\ UNCHANGED <<a_sub, a_paths, a_chunks, a_part>>

\* database.upsert_track for each track of the list.
RECURSIVE UpsertAll(_, _, _)
UpsertAll(rs, tracks, broken) ==
    IF tracks = <<>> THEN rs
    ELSE UpsertAll(UpsertTrack(rs, Head(tracks), broken), Tail(tracks), broken)

\* Lines 465-482 and download_track_for_zip, lines 426-436: gather starts the
\* per-track tasks, each running to its first await: the row is upserted; a
\* file that is there is returned, else the video platform is searched.
ArchiveFanOut(a) ==
    /\ UNCHANGED handlerVars
    /\ a_pc[a] = "prepare"
    /\ a_pc' = [a_pc EXCEPT ![a] = "gather"]
    /\ rows' = UpsertAll(rows, a_tracks[a], db_fails)
    /\ a_sub' = [a_sub EXCEPT ![a] =
                   [i \in 1..Len(a_tracks[a]) |->
                       IF mp3_ctime[a_tracks[a][i]] > 0 THEN "cached" ELSE "searching"]]
    /\ UNCHANGED <<mp3_ctime, mp3_size, covers, zips, envVars, cfgVars, quota_paused, clock>>
    /\ NoPass
    /\ UNCHANGED <<deliveryVars, a_tracks, a_paths, a_chunks, a_part>>

\* Lines 436-445: no url or an error gives None; with a url download_track
\* is called with enforce_quota=False.
SubSearchDone(a, i) ==
    /\ UNCHANGED handlerVars
    /\ a_pc[a] = "gather"
    /\ a_sub[a][i] = "searching"
    /\ \E outcome \in {"none", "url"} :
          IF outcome = "none"
          THEN /\ a_sub' = [a_sub EXCEPT ![a][i] = "failed"]
               /\ UNCHANGED fsVars
               /\ NoPass
          ELSE IF CacheHit(mp3_ctime, a_tracks[a][i])
          THEN /\ a_sub' = [a_sub EXCEPT ![a][i] = "hit"]
               /\ EnforceIfRequested(FALSE, Tree)
          ELSE /\ a_sub' = [a_sub EXCEPT ![a][i] = "downloading"]
               /\ UNCHANGED fsVars
               /\ NoPass
    /\ UNCHANGED <<cfgVars, quota_paused, envVars, clock>>
    /\ UNCHANGED <<deliveryVars, a_pc, a_tracks, a_paths, a_chunks, a_part>>

\* ydl.download is through and download_track returns the path, the quota
\* not enforced.
SubDownloadDone(a, i) ==
    /\ UNCHANGED handlerVars
    /\ a_pc[a] = "gather"
    /\ a_sub[a][i] = "downloading"
    /\ clock < MaxClock
    /\ \E sz \in DownloadSizes :
          EnforceIfRequested(FALSE, Written(Tree, a_tracks[a][i], sz))
    /\ clock' = clock + 1
    /\ a_sub' = [a_sub EXCEPT ![a][i] = "ok"]
    /\ UNCHANGED <<cfgVars, quota_paused, envVars>>
    /\ UNCHANGED <<deliveryVars, a_pc, a_tracks, a_paths, a_chunks, a_part>>

\* ydl.download raises: logged, the task returns None.
SubDownloadFails(a, i) ==
    /\ UNCHANGED handlerVars
    /\ a_pc[a] = "gather"
    /\ a_sub[a][i] = "downloading"
    /\ a_sub' = [a_sub EXCEPT ![a][i] = "failed"]
    /\ UNCHANGED <<fsVars, envVars, cfgVars, quota_paused, clock>>
    /\ NoPass
    /\ UNCHANGED <<deliveryVars, a_pc, a_tracks, a_paths, a_chunks, a_part>>

\* A mutant of the filter: the first failed track ends the list.
RECURSIVE DownloadedPathsUntilFailure(_, _)
DownloadedPathsUntilFailure(tracks, sub) ==
    IF tracks = <<>> \/ Head(sub) = "failed" THEN <<>>
    ELSE <<Head(tracks)>> \o DownloadedPathsUntilFailure(Tail(tracks), Tail(sub))

\* [path for path in results if path]
RECURSIVE DownloadedPaths(_, _)
DownloadedPaths(tracks, sub) ==
    IF tracks = <<>> THEN <<>>
    ELSE (IF Head(sub) = "failed" THEN <<>> ELSE <<Head(tracks)>>)
         \o DownloadedPaths(Tail(tracks), Tail(sub))

\* Line 485: failed_count = total_tracks - len(downloaded_paths)
FailedCount(tracks, downloaded_paths) == Len(tracks) - Len(downloaded_paths)

\* Lines 482-491: gather returns; with no path the failure is reported.
ArchiveGathered(a) ==
    /\ UNCHANGED handlerVars
    /\ a_pc[a] = "gather"
    /\ \A i \in 1..Len(a_sub[a]) : SubDone(a_sub[a][i])
    /\ LET downloaded_paths == DownloadedPaths(a_tracks[a], a_sub[a])
       IN /\ a_paths' = [a_paths EXCEPT ![a] = downloaded_paths]
          /\ a_pc' = [a_pc EXCEPT ![a] =
                        IF downloaded_paths = <<>> THEN "report" ELSE "grouping"]
    /\ UNCHANGED <<fsVars, envVars, cfgVars, quota_paused, clock>>
    /\ NoPass
    /\ UNCHANGED <<deliveryVars, a_tracks, a_sub, a_chunks, a_part>>

\* A mutant of the chunking: the size test leaves out the file in hand.
RECURSIVE ChunkLoopLate(_, _, _, _, _)
ChunkLoopLate(paths, sizes, zip_chunks, current_chunk, current_chunk_size) ==
    IF paths = <<>>
    THEN IF current_chunk # <<>> THEN Append(zip_chunks, current_chunk) ELSE zip_chunks
    ELSE LET size == sizes[Head(paths)]
         IN IF current_chunk_size > MAX_ZIP_SIZE /\ current_chunk # <<>>
            THEN ChunkLoopLate(Tail(paths), sizes, Append(zip_chunks, current_chunk),
                               <<Head(paths)>>, size)
            ELSE ChunkLoopLate(Tail(paths), sizes, zip_chunks,
                               Append(current_chunk, Head(paths)),
                               current_chunk_size + size)

\* A mutant of the chunking: the chunk in hand at the end is not appended.
RECURSIVE ChunkLoopNoTail(_, _, _, _, _)
ChunkLoopNoTail(paths, sizes, zip_chunks, current_chunk, current_chunk_size) ==
    IF paths = <<>>
    THEN zip_chunks
    ELSE LET size == sizes[Head(paths)]
         IN IF current_chunk_size + size > MAX_ZIP_SIZE /\ current_chunk # <<>>
            THEN ChunkLoopNoTail(Tail(paths), sizes, Append(zip_chunks, current_chunk),
                                 <<Head(paths)>>, size)
            ELSE ChunkLoopNoTail(Tail(paths), sizes, zip_chunks,
                                 Append(current_chunk, Head(paths)),
                                 current_chunk_size + size)

\* Lines 497-506: the chunking loop over downloaded_paths.
RECURSIVE ChunkLoop(_, _, _, _, _)
ChunkLoop(paths, sizes, zip_chunks, current_chunk, current_chunk_size) ==
    IF paths = <<>>
    THEN IF current_chunk # <<>> THEN Append(zip_chunks, current_chunk) ELSE zip_chunks
    ELSE LET size == sizes[Head(paths)]
         IN IF current_chunk_size + size > MAX_ZIP_SIZE /\ current_chunk # <<>>
            THEN ChunkLoop(Tail(paths), sizes, Append(zip_chunks, current_chunk),
                           <<Head(paths)>>, size)
            ELSE ChunkLoop(Tail(paths), sizes, zip_chunks,
                           Append(current_chunk, Head(paths)),
                           current_chunk_size + size)

\* Lines 494-506.
ZipChunks(paths, sizes) == ChunkLoop(paths, sizes, <<>>, <<>>, 0)

AllThere(paths) == \A i \in 1..Len(paths) : mp3_ctime[paths[i]] > 0

\* Lines 493-506: path.stat() raises for a file that is gone.
ArchiveChunk(a) ==
    /\ UNCHANGED handlerVars
    /\ a_pc[a] = "grouping"
    /\ IF AllThere(a_paths[a])
       THEN /\ a_chunks' = [a_chunks EXCEPT ![a] = ZipChunks(a_paths[a], mp3_size)]
            /\ a_part' = [a_part EXCEPT ![a] = 1]
            /\ a_pc' = [a_pc EXCEPT ![a] = "creating"]
       ELSE /\ a_pc' = [a_pc EXCEPT ![a] = "except"]
            /\ UNCHANGED <<a_chunks, a_part>>
    /\ UNCHANGED <<fsVars, envVars, cfgVars, quota_paused, clock>>
    /\ NoPass
    /\ UNCHANGED <<deliveryVars, a_tracks, a_sub, a_paths>>

\* The bytes zipf.write puts into the archive until a member is missing.
RECURSIVE WrittenBytes(_)
WrittenBytes(chunk) ==
    IF chunk = <<>> \/ mp3_ctime[Head(chunk)] = 0 THEN 0
    ELSE mp3_size[Head(chunk)] + WrittenBytes(Tail(chunk))

\* Lines 508-516: the archive of the chunk in hand is written under
\* TRACKS_DIR; a missing member raises and leaves what was written.
ArchiveWriteZip(a) ==
    /\ UNCHANGED handlerVars
    /\ a_pc[a] = "creating"
    /\ LET chunk == a_chunks[a][a_part[a]]
           others == {z \in zips : ~(z.owner = a /\ z.part = a_part[a])}
       IN /\ zips' = others \cup {[owner |-> a, part |-> a_part[a],
                                   bytes |-> WrittenBytes(chunk)]}
          /\ a_pc' = [a_pc EXCEPT ![a] = IF AllThere(chunk) THEN "sending" ELSE "except"]
    /\ UNCHANGED <<mp3_ctime, mp3_size, covers, rows, envVars, cfgVars, quota_paused, clock>>
    /\ NoPass
    /\ UNCHANGED <<deliveryVars, a_tracks, a_sub, a_paths, a_chunks, a_part>>

\* A mutant of the send: the archive stays on disk after it is sent.
AfterSendKeep(zs, a, part_num) == zs

\* Lines 519-522: answer_document returned; zip_path.unlink().
AfterSend(zs, a, part_num) == {z \in zs : ~(z.owner = a /\ z.part = part_num)}

ArchiveSent(a) ==
    /\ UNCHANGED handlerVars
    /\ a_pc[a] = "sending"
    /\ zips' = AfterSend(zips, a, a_part[a])
    /\ IF a_part[a] < Len(a_chunks[a])
       THEN /\ a_part' = [a_part EXCEPT ![a] = @ + 1]
            /\ a_pc' = [a_pc EXCEPT ![a] = "creating"]
       ELSE /\ a_pc' = [a_pc EXCEPT ![a] = "report"]
            /\ UNCHANGED a_part
    /\ UNCHANGED <<mp3_ctime, mp3_size, covers, rows, envVars, cfgVars, quota_paused, clock>>
    /\ NoPass
    /\ UNCHANGED <<deliveryVars, a_tracks, a_sub, a_paths, a_chunks>>

\* An awaited chat call inside the try block raises (edit_text, or
\* answer_document while the archive is being sent): the except block runs.
ArchiveError(a) ==
    /\ UNCHANGED handlerVars
    /\ a_pc[a] \in {"prepare", "gather", "grouping", "creating", "sending", "report"}
    /\ a_pc' = [a_pc EXCEPT ![a] = "except"]
    /\ UNCHANGED <<fsVars, envVars, cfgVars, quota_paused, clock>>
    /\ NoPass
    /\ UNCHANGED <<deliveryVars, a_tracks, a_sub, a_paths, a_chunks, a_part>>

\* A mutant of the exit: the finally block does not resume.
LeaveWithoutResume(st) ==
    /\ UNCHANGED quota_paused
    /\ Stored(st)

\* Lines 534-536, the finally block.
Leave(st) == ResumeQuotaEnforcement(st)

\* The routine ends, after the report or after the except block.
ArchiveFinally(a) ==
    /\ UNCHANGED handlerVars
    /\ a_pc[a] \in {"report", "except"}
    /\ Leave(Tree)
    /\ a_pc' = [a_pc EXCEPT ![a] = IF a_pc[a] = "report" THEN "done" ELSE "failed"]
    /\ UNCHANGED <<envVars, cfgVars, clock>>
    /\ UNCHANGED <<deliveryVars, a_tracks, a_sub, a_paths, a_chunks, a_part>>

\* ------------------------------------------------------------ the service

\* Ceilings the engine of a run is built with: none, disabled, or 48 MB.
EngineConfigs == {Absent, <<0>>, <<-1>>, <<48>>}

\* After construction: empty directories, an empty store, nothing paused.
Fresh ==
    /\ quota_paused = FALSE
    /\ mp3_ctime = [t \in Tracks |-> 0]
    /\ mp3_size = [t \in Tracks |-> 0]
    /\ covers = {}
    /\ rows = {}
    /\ zips = {}
    /\ unlink_fails = {}
    /\ cover_unlink_fails = FALSE
    /\ db_fails = FALSE
    /\ removed_log = <<>>
    /\ db_delete_log = <<>>
    /\ clock = 0
    /\ NoCalls

Init ==
    /\ max_storage_mb \in EngineConfigs
    /\ max_storage_bytes = MaxStorageBytes(max_storage_mb)
    /\ Fresh
    /\ NoRouting /\ NoNaming /\ NoGrouping /\ NoStore /\ NoLinks /\ NoFlow /\ NoMain /\ NoCount /\ NoPool /\ NoLoop

\* The archive operation of a run with one collection being packaged.
Solo == {1}

\* The delivery of a run with one track link being handled.
One == {1}

\* A delivery beside one archive operation.
Next ==
    \/ \E d \in One : \E t \in Requested : DeliveryStart(d, t)
    \/ \E d \in One : DeliveryCoverDone(d)
    \/ \E d \in One : DeliverySearchDone(d)
    \/ \E d \in One : DeliveryWorkerWrites(d)
    \/ \E d \in One : DeliveryDownloadFails(d)
    \/ \E d \in One : DeliveryResumes(d)
    \/ \E d \in One : DeliverySend(d)
    \/ \E a \in Solo : \E tracks \in BatchLists : ArchiveStart(a, tracks)
    \/ \E a \in Solo : ArchiveFanOut(a)
    \/ \E a \in Solo : \E i \in 1..Len(a_sub[a]) : SubSearchDone(a, i)
    \/ \E a \in Solo : \E i \in 1..Len(a_sub[a]) : SubDownloadDone(a, i)
    \/ \E a \in Solo : \E i \in 1..Len(a_sub[a]) : SubDownloadFails(a, i)
    \/ \E a \in Solo : ArchiveGathered(a)
    \/ \E a \in Solo : ArchiveChunk(a)
    \/ \E a \in Solo : ArchiveWriteZip(a)
    \/ \E a \in Solo : ArchiveSent(a)
    \/ \E a \in Solo : ArchiveError(a)
    \/ \E a \in Solo : ArchiveFinally(a)

Spec == Init /\ [][Next]_vars

\* A step of an archive operation under way. The event loop runs a task
\* that can go on, and each awaited call returns or raises.
ArchiveStep ==
    \E a \in Solo :
        \/ ArchiveFanOut(a)
        \/ \E i \in 1..Len(a_sub[a]) : SubSearchDone(a, i)
        \/ \E i \in 1..Len(a_sub[a]) : SubDownloadDone(a, i)
        \/ \E i \in 1..Len(a_sub[a]) : SubDownloadFails(a, i)
        \/ ArchiveGathered(a)
        \/ ArchiveChunk(a)
        \/ ArchiveWriteZip(a)
        \/ ArchiveSent(a)
        \/ ArchiveFinally(a)

\* One archive operation on its own.
NextSolo ==
    \/ \E a \in Solo : \E tracks \in BatchLists : ArchiveStart(a, tracks)
    \/ ArchiveStep
    \/ \E a \in Solo : ArchiveError(a)

\* The same with the event loop's scheduling.
FairSolo == Init /\ [][NextSolo]_vars /\ WF_vars(ArchiveStep)

\* One-track collections.
SingleLists == [1..1 -> Requested]

\* The engine built with a 48 MB ceiling, before any request.
InitOverlap ==
    /\ Init
    /\ max_storage_mb = <<48>>

\* Archive operations overlapping each other (two users packaging at once),
\* each of a one-track collection.
NextOverlap ==
    \/ \E a \in Archives : \E tracks \in SingleLists : ArchiveStart(a, tracks)
    \/ \E a \in Archives : ArchiveFanOut(a)
    \/ \E a \in Archives : \E i \in 1..Len(a_sub[a]) : SubSearchDone(a, i)
    \/ \E a \in Archives : \E i \in 1..Len(a_sub[a]) : SubDownloadDone(a, i)
    \/ \E a \in Archives : \E i \in 1..Len(a_sub[a]) : SubDownloadFails(a, i)
    \/ \E a \in Archives : ArchiveGathered(a)
    \/ \E a \in Archives : ArchiveChunk(a)
    \/ \E a \in Archives : ArchiveWriteZip(a)
    \/ \E a \in Archives : ArchiveSent(a)
    \/ \E a \in Archives : ArchiveError(a)
    \/ \E a \in Archives : ArchiveFinally(a)

SpecOverlap == InitOverlap /\ [][NextOverlap]_vars

\* Deliveries overlapping each other (two track links handled at once), no
\* archive operation beside them.
NextRace ==
    \/ \E d \in Deliveries : \E t \in Requested : DeliveryStart(d, t)
    \/ \E d \in Deliveries : DeliveryCoverDone(d)
    \/ \E d \in Deliveries : DeliverySearchDone(d)
    \/ \E d \in Deliveries : DeliveryWorkerWrites(d)
    \/ \E d \in Deliveries : DeliveryDownloadFails(d)
    \/ \E d \in Deliveries : DeliveryResumes(d)
    \/ \E d \in Deliveries : DeliverySend(d)

SpecRace == InitOverlap /\ [][NextRace]_vars

\* --------------------------------------- playlist and album link handlers

\* Values of the ZIP_THRESHOLD environment variable: unset, or an integer.
ThresholdSettings == {Absent, <<0>>, <<-1>>, <<2>>, <<12>>}

\* ZIP_THRESHOLD = get_optional_int_env("ZIP_THRESHOLD") or 10
ZIP_THRESHOLD ==
    IF zip_threshold_env = Absent \/ zip_threshold_env[1] = 0
    THEN DEFAULT_ZIP_THRESHOLD
    ELSE zip_threshold_env[1]

\* A mutant of the routing test: the choice is offered at the threshold too.
OffersArchiveFromThreshold(total_tracks) == total_tracks >= ZIP_THRESHOLD

\* if total_tracks > ZIP_THRESHOLD
OffersArchive(total_tracks) == total_tracks > ZIP_THRESHOLD

\* process_playlist_link / process_album_link is called: the status message
\* is being sent.
LinkReceived(kind) ==
    /\ h_pc = "idle"
    /\ h_pc' = "status"
    /\ h_kind' = kind
    /\ UNCHANGED <<zip_threshold_env, h_total, h_offered>>
    /\ UNCHANGED <<engineVars, nameVars, chunkVars, storeVars, linkVars, flowVars, mainVars, countVars, poolVars, loopVars>>

\* get_playlist_info / get_album_info raises, or returns total_tracks: above
\* the threshold the status message is edited to the choice with its
\* keyboard, else to the "starting" text.
InfoFetched ==
    /\ h_pc = "status"
    /\ \E fetched \in BOOLEAN : \E total_tracks \in 0..MaxTotal :
          IF ~fetched
          THEN /\ h_pc' = "failed"
               /\ UNCHANGED <<h_total, h_offered>>
          ELSE /\ h_total' = total_tracks
               /\ IF OffersArchive(total_tracks)
                  THEN /\ h_offered' = TRUE
                       /\ h_pc' = "offering"
                  ELSE /\ h_pc' = "starting"
                       /\ UNCHANGED h_offered
    /\ UNCHANGED <<zip_threshold_env, h_kind>>
    /\ UNCHANGED <<engineVars, nameVars, chunkVars, storeVars, linkVars, flowVars, mainVars, countVars, poolVars, loopVars>>

\* The edit with the keyboard is through; the handler returns.
ChoiceShown ==
    /\ h_pc = "offering"
    /\ h_pc' = "choice"
    /\ UNCHANGED <<zip_threshold_env, h_kind, h_total, h_offered>>
    /\ UNCHANGED <<engineVars, nameVars, chunkVars, storeVars, linkVars, flowVars, mainVars, countVars, poolVars, loopVars>>

\* The "starting" edit is through: the tracks are fetched (which may raise)
\* and send_tracks_one_by_one starts them.
OneByOneStarts ==
    /\ h_pc = "starting"
    /\ \E fetched \in BOOLEAN :
          h_pc' = IF fetched THEN "one_by_one" ELSE "failed"
    /\ UNCHANGED <<zip_threshold_env, h_kind, h_total, h_offered>>
    /\ UNCHANGED <<engineVars, nameVars, chunkVars, storeVars, linkVars, flowVars, mainVars, countVars, poolVars, loopVars>>

\* An awaited chat call of the handler raises.
HandlerError ==
    /\ h_pc \in {"status", "offering", "starting"}
    /\ h_pc' = "failed"
    /\ UNCHANGED <<zip_threshold_env, h_kind, h_total, h_offered>>
    /\ UNCHANGED <<engineVars, nameVars, chunkVars, storeVars, linkVars, flowVars, mainVars, countVars, poolVars, loopVars>>

\* The service at rest, with quota disabled.
AtRest ==
    /\ max_storage_mb = Absent
    /\ max_storage_bytes = MaxStorageBytes(max_storage_mb)
    /\ Fresh

InitRoute ==
    /\ AtRest
    /\ zip_threshold_env \in ThresholdSettings
    /\ h_pc = "idle"
    /\ h_kind = "none"
    /\ h_total = -1
    /\ h_offered = FALSE
    /\ NoNaming /\ NoGrouping /\ NoStore /\ NoLinks /\ NoFlow /\ NoMain /\ NoCount /\ NoPool /\ NoLoop

NextRoute ==
    \/ \E kind \in {"playlist", "album"} : LinkReceived(kind)
    \/ InfoFetched
    \/ ChoiceShown
    \/ OneByOneStarts
    \/ HandlerError

SpecRoute == InitRoute /\ [][NextRoute]_vars

\* ------------------------------------------------------- the archive name

\* Characters of collection names: the nine the file systems refuse, and a
\* letter.
NameChars == {"/", "\\", ":", "*", "?", "\"", "<", ">", "|", "a"}

CollectionNames == UNION {[1..n -> NameChars] : n \in 0..MaxNameLen}

\* The character class of r'[\/:*?"<>|]': \/ is an escaped slash.
Replaced == {"/", ":", "*", "?", "\"", "<", ">", "|"}

\* re.sub(r'[\/:*?"<>|]', '_', collection_name)
Sanitize(name) ==
    [i \in 1..Len(name) |-> IF name[i] \in Replaced THEN "_" ELSE name[i]]

\* Line 458 of download_and_zip_tracks.
SanitizeName ==
    /\ sanitized_collection_name = <<>>
    /\ sanitized_collection_name' = <<Sanitize(collection_name)>>
    /\ UNCHANGED collection_name
    /\ UNCHANGED <<engineVars, routeVars, chunkVars, storeVars, linkVars, flowVars, mainVars, countVars, poolVars, loopVars>>

InitName ==
    /\ AtRest
    /\ collection_name \in CollectionNames
    /\ sanitized_collection_name = <<>>
    /\ NoRouting /\ NoGrouping /\ NoStore /\ NoLinks /\ NoFlow /\ NoMain /\ NoCount /\ NoPool /\ NoLoop

NextName == SanitizeName

SpecName == InitName /\ [][NextName]_vars

\* ------------------------------------------------- grouping into archives

\* st_size values around the limit.
StatSizes == {1, 16 * 1024 * 1024, 24 * 1024 * 1024, MAX_ZIP_SIZE, MAX_ZIP_SIZE + 1}

SizeLists == UNION {[1..n -> StatSizes] : n \in 1..MaxFiles}

\* Lines 493-506 on downloaded_paths, a path standing for its place in the
\* list.
GroupFiles ==
    /\ grouped = <<>>
    /\ grouped' = ZipChunks([i \in 1..Len(file_sizes) |-> i], file_sizes)
    /\ UNCHANGED file_sizes
    /\ UNCHANGED <<engineVars, routeVars, nameVars, storeVars, linkVars, flowVars, mainVars, countVars, poolVars, loopVars>>

InitGroup ==
    /\ AtRest
    /\ file_sizes \in SizeLists
    /\ grouped = <<>>
    /\ NoRouting /\ NoNaming /\ NoStore /\ NoLinks /\ NoFlow /\ NoMain /\ NoCount /\ NoPool /\ NoLoop

NextGroup == GroupFiles

SpecGroup == InitGroup /\ [][NextGroup]_vars

\* ------------------------------------------------------ the metadata store

\* The track_info dictionaries handed to upsert_track: complete ones, one
\* without album and image, and ones whose name or artist is None.
InfosOf(t) ==
    {[id |-> t, name |-> "n1", artist |-> "a1", album |-> "al1", image_url |-> "u1"],
     [id |-> t, name |-> "n2", artist |-> "a1", album |-> NULL, image_url |-> NULL],
     [id |-> t, name |-> NULL, artist |-> "a1", album |-> "al1", image_url |-> "u1"],
     [id |-> t, name |-> "n1", artist |-> NULL, album |-> "al1", image_url |-> "u1"]}

TrackInfos == UNION {InfosOf(t) : t \in Requested}

\* Username values of add_user.
Usernames == {"u1", "u2"}

\* name TEXT NOT NULL, artist TEXT NOT NULL: the statement fails with
\* sqlite3.IntegrityError.
NotNullViolated(track_info) == track_info.name = NULL \/ track_info.artist = NULL

\* A mutant of the insert: INSERT OR IGNORE, a present row is kept.
InsertOrIgnore(tbl, key, row) ==
    IF tbl[key] = Absent THEN [tbl EXCEPT ![key] = <<row>>] ELSE tbl

\* INSERT OR REPLACE INTO ... : the row of the key is the new one.
InsertOrReplace(tbl, key, row) == [tbl EXCEPT ![key] = <<row>>]

\* SELECT ... WHERE track_id=? and fetchone(): the row as a dictionary, or
\* None.
SelectTrack(tbl, track_id) == tbl[track_id]

\* A mutant of the delete: the WHERE clause is missing.
DeleteEvery(tbl, track_id) == [k \in DOMAIN tbl |-> Absent]

\* DELETE FROM tracks WHERE track_id=?
DeleteFrom(tbl, track_id) == [tbl EXCEPT ![track_id] = Absent]

\* A mutant of the error handling: every function re-raises.
RaisesAlways(op, storage_error) == storage_error

\* Whether a sqlite3.Error in the function reaches the caller: init_db
\* re-raises, the other four log and swallow.
Raises(op, storage_error) == op = "init_db" /\ storage_error

\* How a call is recorded.
DbCall(op, key, storage_error, result) ==
    [op |-> op, key |-> key, storage_error |-> storage_error,
     raised |-> Raises(op, storage_error), result |-> result]

\* init_db at import time: the tables are created, or sqlite3.Error is
\* raised and the module is not imported.
InitDbCall ==
    /\ db_state = "down"
    /\ \E storage_error \in BOOLEAN :
          /\ db_call' = DbCall("init_db", 0, storage_error, <<>>)
          /\ db_state' = IF Raises("init_db", storage_error) THEN "aborted" ELSE "ready"
    /\ UNCHANGED <<tracks_tbl, users_tbl, latest, clean>>
    /\ UNCHANGED <<engineVars, routeVars, nameVars, chunkVars, linkVars, flowVars, mainVars, countVars, poolVars, loopVars>>

\* add_user(user_id, username, ...)
AddUserCall ==
    /\ db_state = "ready"
    /\ \E user_id \in UserIds : \E username \in Usernames : \E storage_error \in BOOLEAN :
          /\ users_tbl' = IF storage_error THEN users_tbl
                          ELSE InsertOrReplace(users_tbl, user_id, username)
          /\ db_call' = DbCall("add_user", user_id, storage_error, <<>>)
    /\ UNCHANGED <<db_state, tracks_tbl, latest, clean>>
    /\ UNCHANGED <<engineVars, routeVars, nameVars, chunkVars, linkVars, flowVars, mainVars, countVars, poolVars, loopVars>>

\* upsert_track(track_info): the store may fail by itself (fault), and does
\* fail when name or artist is None; the transaction is then rolled back.
UpsertTrackCall ==
    /\ db_state = "ready"
    /\ \E track_info \in TrackInfos : \E fault \in BOOLEAN :
          LET storage_error == fault \/ NotNullViolated(track_info)
          IN /\ tracks_tbl' = IF storage_error THEN tracks_tbl
                              ELSE InsertOrReplace(tracks_tbl, track_info.id, track_info)
             /\ db_call' = DbCall("upsert_track", track_info.id, storage_error, <<>>)
             /\ latest' = [latest EXCEPT ![track_info.id] = <<track_info>>]
             /\ clean' = [clean EXCEPT ![track_info.id] = ~storage_error]
    /\ UNCHANGED <<db_state, users_tbl>>
    /\ UNCHANGED <<engineVars, routeVars, nameVars, chunkVars, linkVars, flowVars, mainVars, countVars, poolVars, loopVars>>

\* get_track(track_id): the row, or None when there is none or the store
\* fails.
GetTrackCall ==
    /\ db_state = "ready"
    /\ \E track_id \in Requested : \E storage_error \in BOOLEAN :
          db_call' = DbCall("get_track", track_id, storage_error,
                            IF storage_error THEN Absent
                            ELSE SelectTrack(tracks_tbl, track_id))
    /\ UNCHANGED <<db_state, tracks_tbl, users_tbl, latest, clean>>
    /\ UNCHANGED <<engineVars, routeVars, nameVars, chunkVars, linkVars, flowVars, mainVars, countVars, poolVars, loopVars>>

\* delete_track(track_id)
DeleteTrackCall ==
    /\ db_state = "ready"
    /\ \E track_id \in Requested : \E storage_error \in BOOLEAN :
          /\ tracks_tbl' = IF storage_error THEN tracks_tbl
                           ELSE DeleteFrom(tracks_tbl, track_id)
          /\ db_call' = DbCall("delete_track", track_id, storage_error, <<>>)
          /\ latest' = [latest EXCEPT ![track_id] = Absent]
          /\ clean' = [clean EXCEPT ![track_id] = ~storage_error]
    /\ UNCHANGED <<db_state, users_tbl>>
    /\ UNCHANGED <<engineVars, routeVars, nameVars, chunkVars, linkVars, flowVars, mainVars, countVars, poolVars, loopVars>>

\* Before the module is imported.
InitStore ==
    /\ AtRest
    /\ db_state = "down"
    /\ tracks_tbl = [t \in Requested |-> Absent]
    /\ users_tbl = [u \in UserIds |-> Absent]
    /\ db_call = NoDbCall
    /\ latest = [t \in Requested |-> Absent]
    /\ clean = [t \in Requested |-> TRUE]
    /\ NoRouting /\ NoNaming /\ NoGrouping /\ NoLinks /\ NoFlow /\ NoMain /\ NoCount /\ NoPool /\ NoLoop

NextStore ==
    \/ InitDbCall
    \/ AddUserCall
    \/ UpsertTrackCall
    \/ GetTrackCall
    \/ DeleteTrackCall

SpecStore == InitStore /\ [][NextStore]_vars

\* ------------------------------------------------------------ link texts

\* A text is a sequence of atoms; adjacent atoms stand for adjacent
\* characters, so <<"a1", "b2">> is the string a1b2.  Words are runs of
\* [A-Za-z0-9]; the other atoms are single characters.
Words == {"open", "spotify", "com", "intl", "en", "US", "track", "playlist",
          "album", "artist", "https", "si", "hi", "a1", "b2"}

Spaces == {" ", "\n"}

Atoms == Words \cup Spaces \cup {":", "/", ".", "?", "-", "="}

IsAlnum(a) == a \in Words

Host == <<"open", ".", "spotify", ".", "com", "/">>

UriPrefix(kind) == <<"spotify", ":", kind, ":">>

\* str.strip(): whitespace at both ends goes.
Strip(s) ==
    LET inked == {i \in 1..Len(s) : s[i] \notin Spaces}
    IN  IF inked = {} THEN <<>>
        ELSE SubSeq(s, CHOOSE i \in inked : \A j \in inked : i <= j,
                       CHOOSE i \in inked : \A j \in inked : j <= i)

MatchAt(s, p, pat) ==
    /\ p + Len(pat) - 1 <= Len(s)
    /\ SubSeq(s, p, p + Len(pat) - 1) = pat

\* str.startswith
StartsWith(s, pat) == MatchAt(s, 1, pat)

\* text.split(':')[-1]: what follows the last colon.
AfterLastColon(s) ==
    LET colons == {i \in 1..Len(s) : s[i] = ":"}
    IN  IF colons = {} THEN s
        ELSE SubSeq(s, 1 + (CHOOSE i \in colons : \A j \in colons : j <= i), Len(s))

\* re.sub(r'\?.*$', '', text): the leftmost "?" that no line break other
\* than a final one follows is cut off with the rest of its line.
RemoveQuery(s) ==
    LET marks == {i \in 1..Len(s) :
                     /\ s[i] = "?"
                     /\ \A j \in (i + 1)..(Len(s) - 1) : s[j] # "\n"}
    IN  IF marks = {} THEN s
        ELSE LET i == CHOOSE m \in marks : \A j \in marks : m <= j
             IN  SubSeq(s, 1, i - 1)
                    \o (IF i < Len(s) /\ s[Len(s)] = "\n" THEN <<"\n">> ELSE <<>>)

\* ([A-Za-z0-9]+) at position p: the longest run of words from there.
AlnumRun(s, p) ==
    LET ends == {q \in (p - 1)..Len(s) : \A i \in p..q : IsAlnum(s[i])}
    IN  SubSeq(s, p, CHOOSE q \in ends : \A r \in ends : r <= q)

\* kind/([A-Za-z0-9]+) at position p: the id, or no match.
KindAt(s, p, kind) ==
    IF MatchAt(s, p, <<kind, "/">>) /\ p + 2 <= Len(s) /\ IsAlnum(s[p + 2])
    THEN <<AlnumRun(s, p + 2)>>
    ELSE Absent

\* (?:intl-[^/]+/)? at position p: the position after the segment when it
\* is there, 0 when it is not.
LocaleEnd(s, p) ==
    LET slashes == {q \in (p + 2)..Len(s) : s[q] = "/"}
    IN  IF MatchAt(s, p, <<"intl", "-">>) /\ slashes # {}
        THEN LET q == CHOOSE x \in slashes : \A y \in slashes : x <= y
             IN  IF q >= p + 3 THEN q + 1 ELSE 0
        ELSE 0

\* The pattern tried at position p: with the locale segment first, then
\* without it.
PatternAt(s, p, kind) ==
    IF ~MatchAt(s, p, Host) THEN Absent
    ELSE LET after == p + Len(Host)
             e == LocaleEnd(s, after)
         IN  IF e # 0 /\ KindAt(s, e, kind) # Absent
             THEN KindAt(s, e, kind)
             ELSE KindAt(s, after, kind)

\* re.search: the leftmost position where the pattern matches.
Search(s, kind) ==
    LET hits == {p \in 1..Len(s) : PatternAt(s, p, kind) # Absent}
    IN  IF hits = {} THEN Absent
        ELSE PatternAt(s, CHOOSE p \in hits : \A q \in hits : p <= q, kind)

\* The uri form keeps a present id even when nothing follows the colon.
ExtractId(kind, t) ==
    IF t = <<>> THEN Absent
    ELSE LET stripped == Strip(t)
         IN  IF StartsWith(stripped, UriPrefix(kind))
             THEN <<AfterLastColon(stripped)>>
             ELSE Search(RemoveQuery(stripped), kind)

extract_track_id(t) == ExtractId("track", t)

extract_playlist_id(t) == ExtractId("playlist", t)

extract_album_id(t) == ExtractId("album", t)

Patches == {"real", "fake_id", "fake_none"}

\* The attribute of SpotifyClient a call finds: the function of the
\* module, or what monkeypatch.setattr put in its place.
Extractor(kind, p, t) ==
    CASE p[kind] = "fake_id" -> <<<<"id123">>>>
      [] p[kind] = "fake_none" -> Absent
      [] OTHER -> CASE kind = "track" -> extract_track_id(t)
                    [] kind = "playlist" -> extract_playlist_id(t)
                    [] OTHER -> extract_album_id(t)

IsSpotifyLinkUnpatched(p, t) ==
    \E kind \in LinkKinds : ExtractId(kind, t) # Absent

is_spotify_link(p, t) ==
    \/ Extractor("track", p, t) # Absent
    \/ Extractor("playlist", p, t) # Absent
    \/ Extractor("album", p, t) # Absent

\* Python truth of an extractor's result: None and "" are false.
Truthy(r) == r # Absent /\ r[1] # <<>>

\* ------------------------------------------------------------ the texts read

MaxShort == 2

Schemes == {<<>>, <<"https", ":", "/", "/">>}

Locales == {<<>>, <<"intl", "-", "en", "/">>, <<"intl", "-", "en", "-", "US", "/">>}

LinkIds == {<<"a1">>, <<"a1", "b2">>}

Tails == {<<>>, <<"/">>, <<"?", "si", "=", "b2">>, <<"/", "?", "si", "=", "b2">>}

WebLinks ==
    {[text |-> s \o Host \o l \o <<kind, "/">> \o id \o tail, kind |-> kind, id |-> id] :
        s \in Schemes, l \in Locales, kind \in LinkKinds, id \in LinkIds, tail \in Tails}

UriLinks ==
    {[text |-> UriPrefix(kind) \o id, kind |-> kind, id |-> id] :
        kind \in LinkKinds, id \in LinkIds}

Links == WebLinks \cup UriLinks

PlainLinks ==
    {Host \o <<kind, "/", "a1">> : kind \in LinkKinds}
        \cup {UriPrefix(kind) \o <<"b2">> : kind \in LinkKinds}

Broken ==
    {UriPrefix(kind) : kind \in LinkKinds}
        \cup {UriPrefix(kind) \o <<"a1", ":">> : kind \in LinkKinds}
        \cup {Host \o <<kind, "/">> : kind \in LinkKinds}
        \cup {Host \o <<"intl", "-", "/", kind, "/", "a1">> : kind \in LinkKinds}
        \cup {Host, Host \o <<"artist", "/", "a1">>, <<"spotify", ":", "artist", ":", "a1">>}

Joiners == {<<" ">>, <<"\n">>, <<"?", " ">>, <<"?", "\n">>}

Short == UNION {[1..n -> Atoms] : n \in 0..MaxShort}

Texts ==
    Short
        \cup {l.text : l \in Links}
        \cup Broken
        \cup {a \o j \o b : a \in PlainLinks \cup {<<"hi">>}, j \in Joiners, b \in PlainLinks}
        \cup {a \o <<c>> \o b : a \in {<<>>, <<" ">>}, c \in {"hi", " ", "-"}, b \in PlainLinks}
        \cup {a \o <<c>> : a \in PlainLinks, c \in {"hi", " ", "-", "\n"}}

PatchTables ==
    {p \in [LinkKinds -> Patches] : Cardinality({kind \in LinkKinds : p[kind] # "real"}) <= 1}

\* ------------------------------------------------ the default message handler

\* The three extractors and is_spotify_link applied to the text.
Classify ==
    /\ l_pc = "received"
    /\ l_pc' = "classified"
    /\ ids' = [kind \in LinkKinds |-> Extractor(kind, patched, text)]
    /\ is_link' = is_spotify_link(patched, text)
    /\ UNCHANGED <<text, patched, route, l_status, l_replies>>
    /\ UNCHANGED <<engineVars, routeVars, nameVars, chunkVars, storeVars, flowVars, mainVars, countVars, poolVars, loopVars>>

\* process_track_link up to the hand-over to a flow: the playlist flow, the
\* album flow, or download_and_send_track with the status message.
ProcessTrackLink ==
    /\ l_pc = "received"
    /\ text # <<>>
    /\ l_pc' = "handled"
    /\ LET playlist_id == Extractor("playlist", patched, text)
           album_id == Extractor("album", patched, text)
           track_id == Extractor("track", patched, text)
       IN  IF Truthy(playlist_id)
           THEN route' = "playlist" /\ UNCHANGED <<l_status, l_replies>>
           ELSE IF Truthy(album_id)
           THEN route' = "album" /\ UNCHANGED <<l_status, l_replies>>
           ELSE IF ~is_spotify_link(patched, text)
           THEN route' = "ignored" /\ UNCHANGED <<l_status, l_replies>>
           ELSE IF ~Truthy(track_id)
           THEN /\ route' = "no_id"
                /\ l_status' = "deleted"
                /\ l_replies' = l_replies \cup {"no_track_id"}
           ELSE /\ route' = "track"
                /\ l_status' = "sent"
                /\ UNCHANGED l_replies
    /\ UNCHANGED <<text, patched, ids, is_link>>
    /\ UNCHANGED <<engineVars, routeVars, nameVars, chunkVars, storeVars, flowVars, mainVars, countVars, poolVars, loopVars>>

InitLink ==
    /\ AtRest
    /\ NoRouting /\ NoNaming /\ NoGrouping /\ NoStore /\ NoFlow /\ NoMain /\ NoCount /\ NoPool /\ NoLoop
    /\ text \in Texts
    /\ patched \in PatchTables
    /\ l_pc = "received"
    /\ ids = [kind \in LinkKinds |-> Absent]
    /\ is_link = FALSE
    /\ route = "none"
    /\ l_status = "none"
    /\ l_replies = {}

NextLink == Classify \/ ProcessTrackLink

SpecLink == InitLink /\ [][NextLink]_vars

\* ------------------------------------------- the messages of the handlers

\* What the handlers and download_and_send_track say to the user; the
\* files of these flows are the engine's part above.

MaxFlowTracks == 2

Handlers == {"track_link", "playlist_link", "album_link", "one_by_one_playlist",
             "zip_playlist", "one_by_one_album", "zip_album"}

LinkHandlers == {"track_link", "playlist_link", "album_link"}

OneByOneCallbacks == {"one_by_one_playlist", "one_by_one_album"}

ZipCallbacks == {"zip_playlist", "zip_album"}

\* How a call of download_and_send_track goes: the file is there, it is
\* downloaded, the search finds nothing, or one of its steps raises.  On
\* the path "cover_error" the cover step raises what its except clause
\* does not name: OSError of write_bytes, or what Image.open, convert and
\* save raise on the bytes that were fetched.
TrackPaths == {"cached", "downloaded", "not_found", "meta_error", "cover_error",
               "search_error", "download_error", "send_error"}

ErrorPaths == {"meta_error", "cover_error", "search_error", "download_error",
               "send_error"}

\* Lines 573-585: except (ClientError, asyncio.TimeoutError), a failed
\* cover download is told only next to a status message.
CoverPart(c) ==
    IF c.cover_fails /\ c.has_status /\ c.path \notin {"meta_error", "cover_error"}
    THEN <<"answer_no_cover">>
    ELSE <<>>

\* Lines 588-593: the status edit before sending or downloading.
EditPart(c) ==
    IF c.has_status /\ c.path \notin {"meta_error", "cover_error"}
    THEN <<"edit_status">>
    ELSE <<>>

\* Lines 595-614: the search, the download and the audio.
SendPart(c) ==
    CASE c.path \in {"cached", "downloaded"} -> <<"answer_audio">>
      [] c.path = "not_found" /\ c.has_status -> <<"answer_not_found">>
      [] OTHER -> <<>>

\* A mutant of the final step: no delete after an error.
DeleteStatusUnlessRaised(log, c) ==
    IF c.has_status /\ c.path \notin ErrorPaths THEN Append(log, "delete_status") ELSE log

\* Lines 550-559 and 620-621: finally, status_msg.delete() when a status
\* message was given, TelegramBadRequest passed over.
DeleteStatusMessage(log, c) ==
    IF c.has_status THEN Append(log, "delete_status") ELSE log

\* Lines 616-619: except Exception: raise.
Reraised(c) == c.path \in ErrorPaths

\* A mutant of the metadata step: the live fetch is made whatever the
\* cache returned.
MetaPartAlwaysLive(c) ==
    IF c.path = "meta_error"
    THEN <<"get_track", "get_track_info">>
    ELSE <<"get_track", "get_track_info", "upsert_track">>

\* Lines 562-565: database.get_track, and when it returned None (no row,
\* or an error of the store) spotify_client.get_track_info, which may
\* raise, and database.upsert_track.
MetaPart(c) ==
    IF c.cached THEN <<"get_track">>
    ELSE IF c.path = "meta_error" THEN <<"get_track", "get_track_info">>
    ELSE <<"get_track", "get_track_info", "upsert_track">>

\* Lines 571-614 as steps: the cover, then what the path takes of search,
\* download and answer_audio.
WorkPart(c) ==
    CASE c.path = "meta_error" -> <<>>
      [] c.path = "cover_error" -> <<"cover">>
      [] c.path \in {"not_found", "search_error"} -> <<"cover", "search">>
      [] c.path = "download_error" -> <<"cover", "search", "download">>
      [] c.path = "downloaded" -> <<"cover", "search", "download", "answer_audio">>
      [] OTHER -> <<"cover", "answer_audio">>

download_and_send_track(c) ==
    [log |-> DeleteStatusMessage(CoverPart(c) \o EditPart(c) \o SendPart(c), c),
     raised |-> Reraised(c),
     audio |-> IF c.path \in {"cached", "downloaded"} THEN 1 ELSE 0,
     steps |-> MetaPart(c) \o WorkPart(c)]

\* cached: get_track returned a record.  cover_fails: download_cover_image
\* raised ClientError or TimeoutError.
TrackCalls(has_status) ==
    {c \in [path : TrackPaths, cached : BOOLEAN, cover_fails : BOOLEAN,
            has_status : {has_status},
            bad_request : IF has_status THEN BOOLEAN ELSE {FALSE}] :
        /\ c.path = "cover_error" => ~c.cover_fails
        /\ c.path = "meta_error" => ~c.cached}

\* The except and finally blocks of the handlers.
Catch ==
    /\ f_error' = TRUE
    /\ f_caught' = TRUE
    /\ f_pc' = "done"
    /\ IF f_handler \in LinkHandlers
       THEN /\ f_replies' = f_replies \cup {"apology"}
            /\ f_status' = "deleted"
            /\ UNCHANGED <<f_choice, f_report>>
       ELSE IF f_handler \in OneByOneCallbacks
       THEN /\ f_replies' = f_replies \cup {"apology"}
            /\ f_choice' = "deleted"
            /\ UNCHANGED <<f_status, f_report>>
       ELSE /\ f_report' = "apology"
            /\ UNCHANGED <<f_replies, f_status, f_choice>>

\* A handler is entered: the link handlers and the one-by-one callbacks
\* answer with a new status message, the zip callbacks take the message
\* under the button as theirs.
HandlerStarts(h) ==
    /\ f_pc = "idle"
    /\ f_handler' = h
    /\ f_status' = "shown"
    /\ f_choice' = IF h \in OneByOneCallbacks THEN "shown" ELSE "none"
    /\ f_pc' = IF h = "track_link" THEN "track" ELSE "info"
    /\ UNCHANGED <<f_replies, f_report, f_total, f_completed, f_failed, f_not_found,
                   f_audio, f_error, f_caught, t_call, t_log, t_raised, t_steps>>
    /\ UNCHANGED <<engineVars, routeVars, nameVars, chunkVars, storeVars, linkVars, mainVars, countVars, poolVars, loopVars>>

\* process_track_link, lines 206-221: download_and_send_track with the
\* status message; when it raises, the apology and one more delete.
TrackLinkRuns ==
    /\ f_pc = "track"
    /\ \E c \in TrackCalls(TRUE) :
          LET r == download_and_send_track(c)
          IN  /\ t_call' = c
              /\ t_log' = r.log
              /\ t_raised' = r.raised
              /\ t_steps' = r.steps
              /\ f_audio' = r.audio
              /\ f_not_found' = IF c.path = "not_found" THEN 1 ELSE 0
              /\ IF r.raised
                 THEN Catch
                 ELSE /\ f_pc' = "done"
                      /\ f_status' = "deleted"
                      /\ UNCHANGED <<f_error, f_caught, f_replies, f_choice, f_report>>
    /\ UNCHANGED <<f_handler, f_total, f_completed, f_failed>>
    /\ UNCHANGED <<engineVars, routeVars, nameVars, chunkVars, storeVars, linkVars, mainVars, countVars, poolVars, loopVars>>

\* get_playlist_info / get_album_info returns or raises; a link handler
\* then offers the choice or goes on.
CollectionInfoFetched ==
    /\ f_pc = "info"
    /\ \E ok, offer \in BOOLEAN :
          IF ~ok
          THEN Catch
          ELSE /\ IF offer /\ f_handler \in LinkHandlers
                  THEN f_pc' = "done" /\ f_report' = "offer"
                  ELSE f_pc' = "tracks" /\ UNCHANGED f_report
               /\ UNCHANGED <<f_error, f_caught, f_replies, f_status, f_choice>>
    /\ UNCHANGED <<f_handler, f_total, f_completed, f_failed, f_not_found, f_audio,
                   t_call, t_log, t_raised, t_steps>>
    /\ UNCHANGED <<engineVars, routeVars, nameVars, chunkVars, storeVars, linkVars, mainVars, countVars, poolVars, loopVars>>

\* get_playlist_tracks / get_album_tracks returns the tracks or raises.
TracksFetched ==
    /\ f_pc = "tracks"
    /\ \E ok \in BOOLEAN, n \in 0..MaxFlowTracks :
          IF ~ok
          THEN Catch /\ UNCHANGED f_total
          ELSE /\ f_total' = n
               /\ f_pc' = "batch"
               /\ UNCHANGED <<f_error, f_caught, f_replies, f_status, f_choice, f_report>>
    /\ UNCHANGED <<f_handler, f_completed, f_failed, f_not_found, f_audio,
                   t_call, t_log, t_raised, t_steps>>
    /\ UNCHANGED <<engineVars, routeVars, nameVars, chunkVars, storeVars, linkVars, mainVars, countVars, poolVars, loopVars>>

\* bounded_download, lines 245-254: a track has failed when
\* download_and_send_track raised.
Failed(r) == r.raised

\* send_tracks_one_by_one: one bounded_download task runs through.
BoundedDownload ==
    /\ f_pc = "batch"
    /\ f_handler \notin ZipCallbacks
    /\ f_completed < f_total
    /\ \E c \in TrackCalls(FALSE) :
          LET r == download_and_send_track(c)
          IN  /\ t_call' = c
              /\ t_log' = r.log
              /\ t_raised' = r.raised
              /\ t_steps' = r.steps
              /\ f_audio' = f_audio + r.audio
              /\ f_not_found' = f_not_found + (IF c.path = "not_found" THEN 1 ELSE 0)
              /\ f_failed' = f_failed + (IF Failed(r) THEN 1 ELSE 0)
    /\ f_completed' = f_completed + 1
    /\ UNCHANGED <<f_handler, f_pc, f_status, f_choice, f_replies, f_report, f_total,
                   f_error, f_caught>>
    /\ UNCHANGED <<engineVars, routeVars, nameVars, chunkVars, storeVars, linkVars, mainVars, countVars, poolVars, loopVars>>

\* send_tracks_one_by_one, lines 273-279: the report goes onto the status
\* message; when that edit raises, the handler catches it.  A one-by-one
\* callback then deletes the message under the button.
OneByOneReport ==
    /\ f_pc = "batch"
    /\ f_handler \notin ZipCallbacks
    /\ f_completed = f_total
    /\ \E edited \in BOOLEAN :
          IF ~edited
          THEN Catch
          ELSE /\ f_pc' = "done"
               /\ f_report' = IF f_failed > 0 THEN "with_failures" ELSE "ok"
               /\ f_choice' = IF f_handler \in OneByOneCallbacks THEN "deleted" ELSE f_choice
               /\ UNCHANGED <<f_error, f_caught, f_replies, f_status>>
    /\ UNCHANGED <<f_handler, f_total, f_completed, f_failed, f_not_found, f_audio,
                   t_call, t_log, t_raised, t_steps>>
    /\ UNCHANGED <<engineVars, routeVars, nameVars, chunkVars, storeVars, linkVars, mainVars, countVars, poolVars, loopVars>>

\* download_track_for_zip: the path, or None when nothing was found or a
\* step raised.
DownloadForZip ==
    /\ f_pc = "batch"
    /\ f_handler \in ZipCallbacks
    /\ f_completed < f_total
    /\ \E path \in TrackPaths \ {"meta_error", "cover_error", "send_error"} :
          /\ f_audio' = f_audio + (IF path \in {"cached", "downloaded"} THEN 1 ELSE 0)
          /\ f_not_found' = f_not_found + (IF path = "not_found" THEN 1 ELSE 0)
    /\ f_completed' = f_completed + 1
    /\ UNCHANGED <<f_handler, f_pc, f_status, f_choice, f_replies, f_report, f_total,
                   f_failed, f_error, f_caught, t_call, t_log, t_raised, t_steps>>
    /\ UNCHANGED <<engineVars, routeVars, nameVars, chunkVars, storeVars, linkVars, mainVars, countVars, poolVars, loopVars>>

\* download_and_zip_tracks, lines 484-533: failed_count, then the report
\* of nothing downloaded, of the archives sent, or of an error while
\* packing, which the function catches itself.
ZipReport ==
    /\ f_pc = "batch"
    /\ f_handler \in ZipCallbacks
    /\ f_completed = f_total
    /\ f_failed' = f_total - f_audio
    /\ \E packed \in BOOLEAN :
          f_report' = IF f_audio = 0 THEN "none_downloaded"
                      ELSE IF ~packed THEN "zip_error"
                      ELSE IF f_total - f_audio > 0 THEN "with_failures"
                      ELSE "ok"
    /\ f_pc' = "done"
    /\ UNCHANGED <<f_handler, f_status, f_choice, f_replies, f_total, f_completed,
                   f_not_found, f_audio, f_error, f_caught, t_call, t_log, t_raised, t_steps>>
    /\ UNCHANGED <<engineVars, routeVars, nameVars, chunkVars, storeVars, linkVars, mainVars, countVars, poolVars, loopVars>>

InitFlow ==
    /\ AtRest
    /\ NoRouting /\ NoNaming /\ NoGrouping /\ NoStore /\ NoLinks /\ NoMain /\ NoCount /\ NoPool /\ NoLoop
    /\ NoFlow

NextFlow ==
    \/ \E h \in Handlers : HandlerStarts(h)
    \/ TrackLinkRuns
    \/ CollectionInfoFetched
    \/ TracksFetched
    \/ BoundedDownload
    \/ OneByOneReport
    \/ DownloadForZip
    \/ ZipReport

SpecFlow == InitFlow /\ [][NextFlow]_vars

\* ------------------------------------------------------------ the process

MaxRetries == 3

\* The environment: the three required variables set or not, and
\* STORAGE_LIMIT_MB unset, an integer, or not an integer.
Environments ==
    [token : BOOLEAN, client_id : BOOLEAN, client_secret : BOOLEAN,
     storage_limit : {"unset", "int", "junk"}]

\* get_required_env and get_optional_int_env, lines 67-71: a required
\* variable that is missing or empty raises RuntimeError, a limit that is
\* not an integer ValueError.
EnvironmentAccepted(env) ==
    /\ env.token
    /\ env.client_id
    /\ env.client_secret
    /\ env.storage_limit # "junk"

\* Lines 67-157: the module is loaded up to the construction of the
\* Downloader, or an exception ends the process before it.
ModuleLoads ==
    /\ m_pc = "import"
    /\ IF EnvironmentAccepted(m_env)
       THEN m_pc' = "init_db" /\ m_engine' = "built" /\ UNCHANGED m_event
       ELSE m_pc' = "exited" /\ m_event' = "startup_error" /\ UNCHANGED m_engine
    /\ UNCHANGED <<m_env, m_retry_delay, m_slept, m_errors, m_raised>>
    /\ UNCHANGED <<engineVars, routeVars, nameVars, chunkVars, storeVars, linkVars, flowVars, countVars, poolVars, loopVars>>

\* Line 160: database.init_db() returns, or raises at module level, before
\* the try statement of lines 650-656 is reached.
StoreInitialised ==
    /\ m_pc = "init_db"
    /\ \E storage_error \in BOOLEAN :
          IF Raises("init_db", storage_error)
          THEN m_pc' = "exited" /\ m_event' = "startup_error"
          ELSE m_pc' = "run" /\ UNCHANGED m_event
    /\ UNCHANGED <<m_env, m_retry_delay, m_slept, m_errors, m_raised, m_engine>>
    /\ UNCHANGED <<engineVars, routeVars, nameVars, chunkVars, storeVars, linkVars, flowVars, countVars, poolVars, loopVars>>

\* Lines 650-652 and 629-634: asyncio.run(main()), main sets retry_delay
\* and starts polling.
MainStarts ==
    /\ m_pc = "run"
    /\ m_pc' = "polling"
    /\ m_retry_delay' = 3
    /\ UNCHANGED <<m_env, m_slept, m_errors, m_event, m_raised, m_engine>>
    /\ UNCHANGED <<engineVars, routeVars, nameVars, chunkVars, storeVars, linkVars, flowVars, countVars, poolVars, loopVars>>

\* A mutant of the retry: the delay doubles with every error.
DelayDoubled(retry_delay) == 2 * retry_delay

\* Lines 635-641: retry_delay is slept as it is and never changed.
DelayAfterError(retry_delay) == retry_delay

\* Lines 642-647 and what no except clause of main matches: a cancellation
\* (an interrupt cancels the main task) is raised again, any other
\* exception than TelegramNetworkError passes through, a return breaks.
RaisedByMain(event) ==
    CASE event \in {"cancelled", "interrupt"} -> "CancelledError"
      [] event = "error" -> "error"
      [] OTHER -> "none"

PollingEvents == {"network_error", "cancelled", "interrupt", "returned", "error"}

\* Line 634: dp.start_polling(bot) ends.
PollingEnds ==
    /\ m_pc = "polling"
    /\ \E event \in PollingEvents :
          /\ m_event' = event
          /\ IF event = "network_error"
             THEN /\ m_errors < MaxRetries
                  /\ m_errors' = m_errors + 1
                  /\ m_slept' = m_retry_delay
                  /\ m_retry_delay' = DelayAfterError(m_retry_delay)
                  /\ m_pc' = "sleeping"
                  /\ UNCHANGED m_raised
             ELSE /\ m_raised' = RaisedByMain(event)
                  /\ m_pc' = "unwinding"
                  /\ UNCHANGED <<m_errors, m_slept, m_retry_delay>>
    /\ UNCHANGED <<m_env, m_engine>>
    /\ UNCHANGED <<engineVars, routeVars, nameVars, chunkVars, storeVars, linkVars, flowVars, countVars, poolVars, loopVars>>

\* Line 641: asyncio.sleep(retry_delay) returns and the loop goes round, or
\* the task is cancelled while it sleeps.
SleepEnds ==
    /\ m_pc = "sleeping"
    /\ \E event \in {"slept", "cancelled", "interrupt"} :
          /\ m_event' = event
          /\ IF event = "slept"
             THEN m_pc' = "polling" /\ UNCHANGED m_raised
             ELSE m_pc' = "unwinding" /\ m_raised' = RaisedByMain(event)
    /\ UNCHANGED <<m_env, m_retry_delay, m_slept, m_errors, m_engine>>
    /\ UNCHANGED <<engineVars, routeVars, nameVars, chunkVars, storeVars, linkVars, flowVars, countVars, poolVars, loopVars>>

\* Lines 653-656: asyncio.run is through; KeyboardInterrupt is logged, and
\* the finally block closes the Downloader.
ProcessExits ==
    /\ m_pc = "unwinding"
    /\ m_engine' = "closed"
    /\ m_pc' = "exited"
    /\ UNCHANGED <<m_env, m_retry_delay, m_slept, m_errors, m_event, m_raised>>
    /\ UNCHANGED <<engineVars, routeVars, nameVars, chunkVars, storeVars, linkVars, flowVars, countVars, poolVars, loopVars>>

InitMain ==
    /\ AtRest
    /\ NoRouting /\ NoNaming /\ NoGrouping /\ NoStore /\ NoLinks /\ NoFlow /\ NoCount /\ NoPool /\ NoLoop
    /\ m_env \in Environments
    /\ m_pc = "import"
    /\ m_retry_delay = 0
    /\ m_slept = 0
    /\ m_errors = 0
    /\ m_event = "none"
    /\ m_raised = "none"
    /\ m_engine = "none"

NextMain ==
    \/ ModuleLoads
    \/ StoreInitialised
    \/ MainStarts
    \/ PollingEnds
    \/ SleepEnds
    \/ ProcessExits

SpecMain == InitMain /\ [][NextMain]_vars

\* ------------------------------------------------- send_tracks_one_by_one

\* The tasks holding the semaphore of the batch.
Holders == {i \in CountTasks : c_task[i] \in {"inside", "editing"}}

\* Lines 235-239 and 270-271: the counters at 0, one bounded_download task
\* per track, gathered.
BatchStarts(n) ==
    /\ c_pc = "idle"
    /\ c_total' = n
    /\ c_task' = [i \in CountTasks |-> IF i <= n THEN "waiting" ELSE "none"]
    /\ completed_count' = 0
    /\ failed_count' = 0
    /\ c_pc' = "gather"
    /\ UNCHANGED c_report
    /\ UNCHANGED <<engineVars, routeVars, nameVars, chunkVars, storeVars, linkVars, flowVars, mainVars, poolVars, loopVars>>

\* Lines 243-247: async with semaphore, upsert_track, and the call of
\* download_and_send_track.
TaskAdmitted(i) ==
    /\ c_task[i] = "waiting"
    /\ Cardinality(Holders) < SemaphoreSlots
    /\ c_task' = [c_task EXCEPT ![i] = "inside"]
    /\ UNCHANGED <<c_total, completed_count, failed_count, c_pc, c_report>>
    /\ UNCHANGED <<engineVars, routeVars, nameVars, chunkVars, storeVars, linkVars, flowVars, mainVars, poolVars, loopVars>>

\* A mutant of the counting: a failed track is counted as failed and not
\* as completed.
CountedApart(completed, failed, success) ==
    IF success
    THEN [completed |-> completed + 1, failed |-> failed]
    ELSE [completed |-> completed, failed |-> failed + 1]

\* Lines 251-254: completed_count += 1; if not success: failed_count += 1.
Counted(completed, failed, success) ==
    [completed |-> completed + 1,
     failed |-> IF success THEN failed ELSE failed + 1]

\* Line 255: if completed_count % 3 == 0 or completed_count == total_tracks
ProgressDue(completed, total) == completed % 3 = 0 \/ completed = total

\* download_and_send_track returns or raises; the finally block counts the
\* track, with no await between the two counters, and goes on to the edit
\* of the status message when one is due.
TaskReturns(i) ==
    /\ c_task[i] = "inside"
    /\ \E success \in BOOLEAN :
          LET n == Counted(completed_count, failed_count, success)
          IN  /\ completed_count' = n.completed
              /\ failed_count' = n.failed
              /\ c_task' = [c_task EXCEPT ![i] =
                              IF ProgressDue(n.completed, c_total) THEN "editing"
                              ELSE "done"]
    /\ UNCHANGED <<c_total, c_pc, c_report>>
    /\ UNCHANGED <<engineVars, routeVars, nameVars, chunkVars, storeVars, linkVars, flowVars, mainVars, poolVars, loopVars>>

\* Lines 256-268: status_msg.edit_text returns, raises TelegramBadRequest,
\* which is passed over, or raises something else, which leaves the task.
TaskEdited(i) ==
    /\ c_task[i] = "editing"
    /\ \E outcome \in {"edited", "bad_request", "error"} :
          c_task' = [c_task EXCEPT ![i] = IF outcome = "error" THEN "raised" ELSE "done"]
    /\ UNCHANGED <<c_total, completed_count, failed_count, c_pc, c_report>>
    /\ UNCHANGED <<engineVars, routeVars, nameVars, chunkVars, storeVars, linkVars, flowVars, mainVars, poolVars, loopVars>>

\* Line 271: gather hands the exception of a task to send_tracks_one_by_one,
\* which ends with it; the other tasks run on.
GatherRaises ==
    /\ c_pc = "gather"
    /\ \E i \in CountTasks : c_task[i] = "raised"
    /\ c_pc' = "raised"
    /\ UNCHANGED <<c_total, c_task, completed_count, failed_count, c_report>>
    /\ UNCHANGED <<engineVars, routeVars, nameVars, chunkVars, storeVars, linkVars, flowVars, mainVars, poolVars, loopVars>>

\* Lines 273-279: the text the status message is edited to.
FinalMessage(total, failed) ==
    IF failed # 0 THEN <<"with_failures", total - failed, total>> ELSE <<"ok">>

\* Lines 271-279: every task has returned; the final edit, which may raise.
FinalReport ==
    /\ c_pc = "gather"
    /\ \A i \in CountTasks : c_task[i] \in {"none", "done"}
    /\ \E edited \in BOOLEAN :
          IF edited
          THEN c_pc' = "reported" /\ c_report' = FinalMessage(c_total, failed_count)
          ELSE c_pc' = "raised" /\ UNCHANGED c_report
    /\ UNCHANGED <<c_total, c_task, completed_count, failed_count>>
    /\ UNCHANGED <<engineVars, routeVars, nameVars, chunkVars, storeVars, linkVars, flowVars, mainVars, poolVars, loopVars>>

InitCount ==
    /\ AtRest
    /\ NoRouting /\ NoNaming /\ NoGrouping /\ NoStore /\ NoLinks /\ NoFlow /\ NoMain /\ NoPool /\ NoLoop
    /\ NoCount

NextCount ==
    \/ \E n \in 0..MaxCountTracks : BatchStarts(n)
    \/ \E i \in CountTasks : TaskAdmitted(i)
    \/ \E i \in CountTasks : TaskReturns(i)
    \/ \E i \in CountTasks : TaskEdited(i)
    \/ GatherRaises
    \/ FinalReport

SpecCount == InitCount /\ [][NextCount]_vars

\* ------------------------------------------- the semaphore and the pool

\* Tasks of batch b inside its semaphore: in the loop, waiting in the queue
\* of the executor, or waiting for their work item on a worker thread.
Inside(b) == p_inside[b] + p_queued[b] + p_running[b]

RECURSIVE SumTo(_, _)
SumTo(f, n) == IF n = 0 THEN 0 ELSE f[n] + SumTo(f, n - 1)

\* Work items of all callers on worker threads.
Running == SumTo(p_running, NPoolBatches)

\* A mutant of the semaphore: it admits every task.
AcquiresAlways(inside) == TRUE

\* async with semaphore, on a Semaphore(10) made by the call of the batch:
\* a task enters when fewer than 10 are inside.
Acquires(inside) == inside < SemaphoreSlots

\* ThreadPoolExecutor(max_workers=4): a work item is taken from the queue
\* when fewer than 4 are running.
WorkerFree(running) == running < MaxWorkers

\* send_tracks_one_by_one or download_and_zip_tracks creates its semaphore
\* and one task per track.
PoolBatchStarts(b) ==
    /\ p_tracks[b] = 0
    /\ \E n \in {1, MaxPoolTracks} :
          /\ p_tracks' = [p_tracks EXCEPT ![b] = n]
          /\ p_waiting' = [p_waiting EXCEPT ![b] = n]
    /\ UNCHANGED <<p_inside, p_queued, p_running>>
    /\ UNCHANGED <<engineVars, routeVars, nameVars, chunkVars, storeVars, linkVars, flowVars, mainVars, countVars, loopVars>>

\* A task of the batch enters the semaphore.
Enters(b) ==
    /\ p_waiting[b] > 0
    /\ Acquires(Inside(b))
    /\ p_waiting' = [p_waiting EXCEPT ![b] = @ - 1]
    /\ p_inside' = [p_inside EXCEPT ![b] = @ + 1]
    /\ UNCHANGED <<p_tracks, p_queued, p_running>>
    /\ UNCHANGED <<engineVars, routeVars, nameVars, chunkVars, storeVars, linkVars, flowVars, mainVars, countVars, loopVars>>

\* search_youtube or download_track: loop.run_in_executor(self.executor, ...)
\* puts the work item in the queue of the executor and the task awaits it.
Submits(b) ==
    /\ p_inside[b] > 0
    /\ p_inside' = [p_inside EXCEPT ![b] = @ - 1]
    /\ p_queued' = [p_queued EXCEPT ![b] = @ + 1]
    /\ UNCHANGED <<p_tracks, p_waiting, p_running>>
    /\ UNCHANGED <<engineVars, routeVars, nameVars, chunkVars, storeVars, linkVars, flowVars, mainVars, countVars, loopVars>>

\* A worker thread takes a work item.
WorkerTakes(b) ==
    /\ p_queued[b] > 0
    /\ WorkerFree(Running)
    /\ p_queued' = [p_queued EXCEPT ![b] = @ - 1]
    /\ p_running' = [p_running EXCEPT ![b] = @ + 1]
    /\ UNCHANGED <<p_tracks, p_waiting, p_inside>>
    /\ UNCHANGED <<engineVars, routeVars, nameVars, chunkVars, storeVars, linkVars, flowVars, mainVars, countVars, loopVars>>

\* _search or _download returns or raises on its thread; the task goes on.
WorkerReturns(b) ==
    /\ p_running[b] > 0
    /\ p_running' = [p_running EXCEPT ![b] = @ - 1]
    /\ p_inside' = [p_inside EXCEPT ![b] = @ + 1]
    /\ UNCHANGED <<p_tracks, p_waiting, p_queued>>
    /\ UNCHANGED <<engineVars, routeVars, nameVars, chunkVars, storeVars, linkVars, flowVars, mainVars, countVars, loopVars>>

\* The task leaves the async with block: by return or by an exception.
Leaves(b) ==
    /\ p_inside[b] > 0
    /\ p_inside' = [p_inside EXCEPT ![b] = @ - 1]
    /\ UNCHANGED <<p_tracks, p_waiting, p_queued, p_running>>
    /\ UNCHANGED <<engineVars, routeVars, nameVars, chunkVars, storeVars, linkVars, flowVars, mainVars, countVars, loopVars>>

InitPool ==
    /\ AtRest
    /\ NoRouting /\ NoNaming /\ NoGrouping /\ NoStore /\ NoLinks /\ NoFlow /\ NoMain /\ NoCount /\ NoLoop
    /\ NoPool

NextPool ==
    \/ \E b \in PoolBatches : PoolBatchStarts(b)
    \/ \E b \in PoolBatches : Enters(b)
    \/ \E b \in PoolBatches : Submits(b)
    \/ \E b \in PoolBatches : WorkerTakes(b)
    \/ \E b \in PoolBatches : WorkerReturns(b)
    \/ \E b \in PoolBatches : Leaves(b)

SpecPool == InitPool /\ [][NextPool]_vars

\* ------------------------------------------------- claims on the eviction

Ids(log) == {log[i].id : i \in 1..Len(log)}

\* C1: an enforcement pass unlinks .mp3 files in ascending creation-time
\* order, never unlinking one while an older one that can be unlinked is
\* still there, and database.delete_track is called for exactly the unlinked
\* ids, once each, in that order.
C1_OldestFirst ==
    /\ \A i, j \in 1..Len(removed_log) :
          i < j => removed_log[i].ctime < removed_log[j].ctime
    /\ \A i \in 1..Len(removed_log) : \A o \in Mp3Files(mp3_ctime) :
          o \notin unlink_fails => mp3_ctime[o] > removed_log[i].ctime
    /\ Len(db_delete_log) = Len(removed_log)
    /\ \A i \in 1..Len(removed_log) : db_delete_log[i] = removed_log[i].id
    /\ \A i, j \in 1..Len(db_delete_log) :
          i # j => db_delete_log[i] # db_delete_log[j]

\* Two files went, and not in the order of their names.
C1_Witness ==
    /\ Len(removed_log) >= 2
    /\ removed_log[1].id > removed_log[2].id
    /\ db_delete_log = <<removed_log[1].id, removed_log[2].id>>

\* What a step leaves alone of track t.
KeepsAll(t) ==
    /\ mp3_ctime'[t] = mp3_ctime[t]
    /\ mp3_size'[t] = mp3_size[t]
    /\ (t \in covers') = (t \in covers)
    /\ (t \in rows') = (t \in rows)

\* C4 as stated: after a pass every evicted id has neither cover nor row,
\* and every other track keeps its audio file, cover and row.
C4_AsStated ==
    [][/\ \A t \in Ids(removed_log') : t \notin covers' /\ t \notin rows'
       /\ \A t \in Tracks \ Ids(removed_log') : KeepsAll(t)]_vars

\* C4 amended: the cover of an evicted id is gone unless unlinking it raised
\* OSError, its row is gone unless the store raised; every other track keeps
\* its audio file, cover and row.
C4_EvictionIsCoordinated ==
    [][/\ \A t \in Ids(removed_log') :
             /\ mp3_ctime'[t] = 0
             /\ ~cover_unlink_fails => t \notin covers'
             /\ ~db_fails => t \notin rows'
       /\ \A t \in Tracks \ Ids(removed_log') : KeepsAll(t)]_vars

\* An evicted track had a cover and a row, both gone, beside a cached track
\* that keeps file, cover and row.
C4_Witness ==
    \E i \in 1..Len(removed_log) : \E k \in Mp3Files(mp3_ctime) :
        /\ removed_log[i].cover
        /\ removed_log[i].id \notin covers
        /\ removed_log[i].id \notin rows
        /\ k \in covers /\ k \in rows

\* ---------------------------------------- claims on the quota and the cache

\* max_storage_mb is absent, zero or negative.
QuotaDisabled == max_storage_mb = Absent \/ max_storage_mb[1] <= 0

\* C2: with max_storage_mb absent, zero or negative the quota is disabled:
\* no step of any download or enforcement call takes away an audio file, a
\* cover or a metadata row, whatever the directory holds.
C2_DisabledQuotaRemovesNothing ==
    [][QuotaDisabled =>
          /\ \A t \in Tracks : mp3_ctime[t] > 0 => mp3_ctime'[t] > 0
          /\ covers \subseteq covers'
          /\ rows \subseteq rows'
          /\ removed_log' = <<>>
          /\ db_delete_log' = <<>>]_vars

\* A negative ceiling; two downloaded files, 40 MiB or more, are in the
\* directory, a delivery's download_track call found its file cached and
\* enforced the quota, and the archive operation has resumed enforcement.
C2_Witness ==
    /\ max_storage_mb = <<-1>>
    /\ Cardinality(Mp3Files(mp3_ctime)) = 2
    /\ \E d \in Deliveries : d_hit[d] /\ d_pc[d] = "sending"
    /\ a_pc[1] = "done"
    /\ ~quota_paused

\* C3: download_track called for a track whose <track_id>.mp3 exists does
\* not invoke the download library and returns that path, whatever the
\* enforce_quota flag: a delivery (flag set) goes on to send the file of
\* its track, a per-track archive task (flag cleared) yields the path with
\* the directory untouched.
C3_CacheHitSkipsDownload ==
    [][/\ \A d \in Deliveries :
             (d_pc[d] = "searching" /\ mp3_ctime[d_track[d]] > 0) =>
                /\ d_pc'[d] \in {"searching", "sending", "done"}
                /\ d_pc'[d] = "sending" => d_hit'[d] /\ d_track'[d] = d_track[d]
                /\ d_pc'[d] = "done" => d_result'[d] \in {"not_found", "error"}
       /\ \A a \in Archives : \A i \in 1..Len(a_sub[a]) :
             (a_pc[a] = "gather" /\ a_sub[a][i] = "searching"
                 /\ mp3_ctime[a_tracks[a][i]] > 0) =>
                /\ a_sub'[a][i] \in {"searching", "hit", "failed"}
                /\ a_sub'[a][i] = "hit" =>
                      /\ mp3_ctime' = mp3_ctime
                      /\ a_tracks'[a][i] = a_tracks[a][i]]_vars

\* Both callers found their file cached: a delivery whose file arrived
\* while it searched, and a per-track archive task likewise.
C3_Witness ==
    /\ \E d \in Deliveries : d_hit[d] /\ d_pc[d] = "sending"
    /\ \E a \in Archives : \E i \in 1..Len(a_sub[a]) : a_sub[a][i] = "hit"

\* ------------------------------------- claims on the archive packaging

\* Between the pause and the end of the finally block.
InBatch(pc) == pc \in {"prepare", "gather", "grouping", "creating", "sending",
                       "report", "except"}

\* C5: while an archive packaging operation is between its start and its
\* end no enforcement pass evicts an audio file, so the files downloaded
\* for the batch are there when they are bundled.
C5_NoEvictionDuringBatch ==
    [][(\E a \in Archives : InBatch(a_pc[a]) /\ InBatch(a_pc'[a])) =>
          removed_log' = <<>>]_vars

\* C6: an archive operation that has paused enforcement comes to its end
\* with enforcement resumed, however it ends.
C6_AlwaysResumed ==
    quota_paused ~> (a_pc[1] \in {"done", "failed"} /\ ~quota_paused)

\* An operation that raised while its first archive was in hand has ended
\* and enforcement is on again.
C6_Witness ==
    /\ a_pc[1] = "failed"
    /\ a_part[1] = 1
    /\ ~quota_paused

\* C8: when an archive packaging operation has ended, none of the archive
\* files it wrote remains under TRACKS_DIR.
C8_NoArchiveLeftBehind ==
    \A a \in Archives :
        a_pc[a] \in {"done", "failed"} => \A z \in zips : z.owner # a

\* ------------------------------------------------ claims on the handlers

RECURSIVE ChunkBytes(_)
ChunkBytes(chunk) ==
    IF chunk = <<>> THEN 0 ELSE file_sizes[Head(chunk)] + ChunkBytes(Tail(chunk))

\* C7: whatever the sizes of the downloaded files, no chunk of the grouping
\* totals more than MAX_ZIP_SIZE, except a chunk of exactly one file that is
\* itself larger than MAX_ZIP_SIZE.
C7_ChunksWithinLimit ==
    \A k \in 1..Len(grouped) :
        \/ ChunkBytes(grouped[k]) <= MAX_ZIP_SIZE
        \/ /\ Len(grouped[k]) = 1
           /\ file_sizes[grouped[k][1]] > MAX_ZIP_SIZE

\* A grouping with a chunk of two files filled to the byte and a chunk made
\* of one oversized file.
C7_Witness ==
    /\ \E k \in 1..Len(grouped) :
          Len(grouped[k]) = 2 /\ ChunkBytes(grouped[k]) = MAX_ZIP_SIZE
    /\ \E k \in 1..Len(grouped) :
          Len(grouped[k]) = 1 /\ ChunkBytes(grouped[k]) > MAX_ZIP_SIZE

\* The nine characters of the claim.
NineChars == {"/", "\\", ":", "*", "?", "\"", "<", ">", "|"}

\* C9: in the sanitized collection name every one of the nine characters
\* / \ : * ? " < > | is replaced by an underscore and every other character
\* is kept, so none of the nine is left.
C9_NineCharsReplaced ==
    sanitized_collection_name # <<>> =>
        LET out == sanitized_collection_name[1]
        IN /\ Len(out) = Len(collection_name)
           /\ \A i \in 1..Len(out) :
                 /\ out[i] \notin NineChars
                 /\ out[i] = IF collection_name[i] \in NineChars
                             THEN "_" ELSE collection_name[i]

\* C10: for a playlist as for an album, once the collection's total is
\* reported the handler puts up the zip/one-by-one choice, and starts no
\* download, exactly when the total is above the threshold; at or below it
\* the handler goes on to one-by-one delivery and puts up no choice.
C10_RoutedByThreshold ==
    h_total # -1 =>
        /\ h_offered <=> h_total > ZIP_THRESHOLD
        /\ h_total > ZIP_THRESHOLD => h_pc \in {"offering", "choice", "failed"}
        /\ h_total <= ZIP_THRESHOLD => h_pc \in {"starting", "one_by_one", "failed"}
        /\ h_pc = "one_by_one" => ~h_offered

\* A playlist of 12 tracks under the default threshold: the choice is up
\* and the handler has returned.
C10_Witness ==
    /\ zip_threshold_env = Absent
    /\ h_kind = "playlist"
    /\ h_total = 12
    /\ h_pc = "choice"

\* ------------------------------------------------ claims on configuration

\* C11: the effective archive threshold is 10 when ZIP_THRESHOLD is unset,
\* zero or negative, and the configured value when that is positive.
C11_ThresholdFallsBack ==
    ZIP_THRESHOLD = IF zip_threshold_env = Absent \/ zip_threshold_env[1] <= 0
                    THEN 10
                    ELSE zip_threshold_env[1]

\* --------------------------------------------------- claims on the store

\* C15 as stated: get_track returns None when the id has no row, and else
\* exactly the track_info of the most recent upsert_track call for that id.
C15_AsStated ==
    db_call.op = "get_track" =>
        /\ tracks_tbl[db_call.key] = Absent => db_call.result = Absent
        /\ db_call.result = latest[db_call.key]

\* C15 amended: get_track returns None when the id has no row; when the
\* most recent upsert_track or delete_track call for the id met no storage
\* error (a None name or artist is one) and get_track meets none, it returns
\* exactly the fields of that upsert, or None after that delete.
C15_RoundTrip ==
    db_call.op = "get_track" =>
        /\ tracks_tbl[db_call.key] = Absent => db_call.result = Absent
        /\ (clean[db_call.key] /\ ~db_call.storage_error) =>
              db_call.result = latest[db_call.key]

\* get_track returned the fields of a second upsert of its id, the album
\* and image None among them, while the other id has a row as well.
C15_Witness ==
    /\ db_call.op = "get_track"
    /\ db_call.result # Absent
    /\ db_call.result = latest[db_call.key]
    /\ db_call.result[1].name = "n2"
    /\ db_call.result[1].album = NULL
    /\ \E t \in Requested : t # db_call.key /\ tracks_tbl[t] # Absent

\* C16 as stated: delete_track never fails; on an id with no row it leaves
\* the store unchanged, on an existing id it removes that row and no other;
\* so a second delete_track of the same id changes nothing.
C16_AsStated ==
    [][db_call'.op = "delete_track" =>
          /\ ~db_call'.raised
          /\ tracks_tbl' = [tracks_tbl EXCEPT ![db_call'.key] = Absent]
          /\ users_tbl' = users_tbl
          /\ (db_call.op = "delete_track" /\ db_call.key = db_call'.key) =>
                tracks_tbl' = tracks_tbl]_vars

\* C16 amended: delete_track never fails; when the store raises no error,
\* on an id with no row it leaves the store unchanged and on an existing id
\* it removes that row and no other, so that a second such delete_track of
\* the same id changes nothing; when the store raises, the error is
\* swallowed and the row stays.
C16_DeleteIsIdempotent ==
    [][db_call'.op = "delete_track" =>
          /\ ~db_call'.raised
          /\ users_tbl' = users_tbl
          /\ db_call'.storage_error => tracks_tbl' = tracks_tbl
          /\ ~db_call'.storage_error =>
                /\ tracks_tbl' = [tracks_tbl EXCEPT ![db_call'.key] = Absent]
                /\ (db_call.op = "delete_track" /\ db_call.key = db_call'.key
                       /\ ~db_call.storage_error) => tracks_tbl' = tracks_tbl]_vars

\* A delete_track that met no error took the row of its id away and left
\* the row of the other id.
C16_Witness ==
    /\ db_call.op = "delete_track"
    /\ ~db_call.storage_error
    /\ latest[db_call.key] = Absent
    /\ tracks_tbl[db_call.key] = Absent
    /\ \E t \in Requested : t # db_call.key /\ tracks_tbl[t] # Absent

ExpectedRoute(playlist, album, track) ==
    IF playlist THEN "playlist"
    ELSE IF album THEN "album"
    ELSE IF track THEN "track"
    ELSE "ignored"

\* C12: process_track_link sends every text where the priority order
\* playlist, album, track, non-link puts it, whether an extractor counts as
\* succeeding when its id is present or only when it is non-empty; an
\* ignored text gets no reply and no status message.
C12_PriorityOrder ==
    l_pc = "handled" =>
        LET r(kind) == Extractor(kind, patched, text)
        IN  /\ \/ route = ExpectedRoute(r("playlist") # Absent, r("album") # Absent,
                                        r("track") # Absent)
               \/ route = ExpectedRoute(Truthy(r("playlist")), Truthy(r("album")),
                                        Truthy(r("track")))
            /\ route = "ignored" => l_status = "none" /\ l_replies = {}

\* C13: is_spotify_link is true exactly when one of the three extractors,
\* as they stand at the time of the call, returns an id that is not None.
C13_LinkIffSomeExtractor ==
    l_pc = "classified" => (is_link <=> \E kind \in LinkKinds : ids[kind] # Absent)

\* A text without a link counted as a link because extract_track_id had
\* been replaced by a function that returns an id.
C13_Witness ==
    /\ l_pc = "classified"
    /\ text = <<"hi">>
    /\ patched["track"] = "fake_id"
    /\ is_link
    /\ ids["track"] = <<<<"id123">>>>
    /\ ids["playlist"] = Absent

\* A link of some kind sits in the text: the uri prefix or the host with
\* the kind, and at least one id character behind it.
ContainsLink(t) ==
    \E p \in 1..Len(t), kind \in LinkKinds :
        \/ /\ MatchAt(t, p, UriPrefix(kind))
           /\ p + 4 <= Len(t)
           /\ IsAlnum(t[p + 4])
        \/ \E l \in Locales :
              LET q == p + Len(Host \o l \o <<kind, "/">>)
              IN  /\ MatchAt(t, p, Host \o l \o <<kind, "/">>)
                  /\ q <= Len(t)
                  /\ IsAlnum(t[q])

\* C14: extract_track_id returns the embedded id of every track link, in
\* uri form and in web form with or without scheme, locale segment,
\* trailing slash and query string, and None for a link of another kind
\* and for a text that holds no link.
C14_ExtractsTrackId ==
    (l_pc = "classified" /\ patched = Unpatched) =>
        /\ \A l \in Links :
              text = l.text =>
                 ids["track"] = IF l.kind = "track" THEN <<l.id>> ELSE Absent
        /\ ~ContainsLink(text) => ids["track"] = Absent

\* ------------------------------------------ claims on the handlers' messages

Said(log) == {log[i] : i \in DOMAIN log}

\* C18: a call of download_and_send_track that was given a status message
\* tries to delete it exactly once, as the last thing it does, whether it
\* sent the audio, found nothing or met an error; a TelegramBadRequest of
\* that delete does not reach the caller, and an error of the routine does.
C18_StatusDeletedLast ==
    t_call.has_status =>
        /\ Len(t_log) >= 1
        /\ t_log[Len(t_log)] = "delete_status"
        /\ Cardinality({i \in DOMAIN t_log : t_log[i] = "delete_status"}) = 1
        /\ t_raised <=> t_call.path \in ErrorPaths

\* The search raised while the status message was already gone: the delete
\* was still tried last, its TelegramBadRequest passed over, and the error
\* of the search reached process_track_link.
C18_Witness ==
    /\ t_call.has_status
    /\ t_call.path = "search_error"
    /\ t_call.bad_request
    /\ t_log = <<"edit_status", "delete_status">>
    /\ t_raised
    /\ f_caught

\* C19: when an error reaches the try block of a handler, the handler
\* catches it, the user gets the apology, and the status message of the
\* operation is deleted.
C19_ErrorsCaughtAndCleaned ==
    (f_pc = "done" /\ f_error) =>
        /\ f_caught
        /\ "apology" \in f_replies \/ f_report = "apology"
        /\ f_status = "deleted"

\* C20: when the search finds nothing, the single-track flow answers "not
\* found" and sends no audio, and a batch flow that reaches its report has
\* gone through every track and counts the track among the failed ones.
C20_NotFoundCounted ==
    (f_pc = "done" /\ ~f_error) =>
        /\ (f_handler = "track_link" /\ t_call.path = "not_found") =>
              /\ "answer_not_found" \in Said(t_log)
              /\ "answer_audio" \notin Said(t_log)
        /\ (f_handler # "track_link" /\ f_report \in {"ok", "with_failures", "none_downloaded"}) =>
              /\ f_completed = f_total
              /\ f_failed >= f_not_found
              /\ f_not_found > 0 => f_report # "ok"

\* ------------------------------------------------ claims on failed tracks

RECURSIVE Members(_)
Members(chunks) == IF chunks = <<>> THEN <<>> ELSE Head(chunks) \o Members(Tail(chunks))

Count(seq, x) == Cardinality({i \in DOMAIN seq : seq[i] = x})

Gathered(pc) == pc \in {"grouping", "creating", "sending", "report", "done"}

\* C21: once the per-track tasks of an archive operation are through, the
\* paths kept are those of the tracks whose task did not fail, each as
\* often as it was asked for, a failed task does not end the batch, the
\* archives hold exactly the kept paths, and failed_count is the number of
\* tracks minus the number of kept paths.
C21_FailedTracksLeftOut ==
    \A a \in Solo :
        Gathered(a_pc[a]) =>
            LET failed == {i \in DOMAIN a_sub[a] : a_sub[a][i] = "failed"}
                through == {i \in DOMAIN a_sub[a] : a_sub[a][i] \in {"cached", "hit", "ok"}}
            IN  /\ failed \cup through = DOMAIN a_tracks[a]
                /\ \A t \in Tracks :
                      Count(a_paths[a], t) =
                         Cardinality({i \in through : a_tracks[a][i] = t})
                /\ FailedCount(a_tracks[a], a_paths[a]) = Cardinality(failed)
                /\ a_chunks[a] # <<>> =>
                      \A t \in Tracks :
                         Count(Members(a_chunks[a]), t) = Count(a_paths[a], t)

\* An operation on two tracks ended after the download of the first had
\* failed: the archive holds the second alone.
C21_Witness ==
    \E a \in Solo :
        /\ a_pc[a] = "done"
        /\ Len(a_tracks[a]) = 2
        /\ a_tracks[a][1] # a_tracks[a][2]
        /\ a_sub[a][1] = "failed"
        /\ a_sub[a][2] = "ok"
        /\ a_chunks[a] = <<<<a_tracks[a][2]>>>>

\* -------------------------------------------------- claims on the process

InLoop(pc) == pc \in {"polling", "sleeping"}

\* What C22 and its amendment share: every network error of polling is
\* followed by a sleep of 3 seconds, whatever the number of errors before
\* it, the sleep by polling again, and a cancellation is raised again.
RetriesForever ==
    /\ (m_pc = "polling" /\ m_event' = "network_error") =>
          m_pc' = "sleeping" /\ m_slept' = 3
    /\ (m_pc = "sleeping" /\ m_event' = "slept") => m_pc' = "polling"
    /\ (InLoop(m_pc) /\ m_event' \in {"cancelled", "interrupt"}) =>
          m_pc' = "unwinding" /\ m_raised' = "CancelledError"

\* C22 as stated: the loop of main retries forever as above and is left
\* only when polling returns or when main is cancelled.
C22_AsStated ==
    [][/\ RetriesForever
       /\ (InLoop(m_pc) /\ ~InLoop(m_pc')) =>
             m_event' \in {"returned", "cancelled", "interrupt"}]_vars

\* C22 amended: the loop of main retries forever as above and is left only
\* when polling returns, when main is cancelled, or when polling raises an
\* exception other than TelegramNetworkError, which main lets through.
C22_RetriesUntilEndOrCancel ==
    [][/\ RetriesForever
       /\ (InLoop(m_pc) /\ ~InLoop(m_pc')) =>
             \/ m_event' = "returned" /\ m_raised' = "none"
             \/ m_event' \in {"cancelled", "interrupt"}
             \/ m_event' = "error" /\ m_raised' = "error"]_vars

\* Polling runs again after as many network errors in a row as the model
\* follows, the last sleep 3 seconds like the first.
C22_Witness ==
    /\ m_pc = "polling"
    /\ m_errors = MaxRetries
    /\ m_event = "slept"
    /\ m_slept = 3

\* C23: when the process has ended after the Downloader was constructed,
\* close() has been called.
C23_EngineClosedAtExit ==
    m_pc = "exited" => m_engine # "built"

\* ------------------------------------------------- claims on the cover art

\* The cover step of the call was reached and failed: the fetch raised what
\* the except clause names, or the step raised something else.
CoverFailed(c) ==
    \/ c.cover_fails /\ c.path # "meta_error"
    \/ c.path = "cover_error"

\* C24: when the cover step of download_and_send_track fails, the warning
\* is answered exactly when the call has a status message, and the audio
\* is sent whenever the search, the download and the sending themselves
\* do not fail.
C24_CoverFailureNeverStopsAudio ==
    (t_call.path # "none" /\ CoverFailed(t_call)) =>
        /\ "answer_no_cover" \in Said(t_log) <=> t_call.has_status
        /\ t_call.path \notin {"not_found", "search_error", "download_error", "send_error"}
              => "answer_audio" \in Said(t_log)

\* ----------------------------------------------- claims on the audio files

\* C25: a step that takes an existing <track_id>.mp3 away is a step of
\* _enforce_storage_quota unlinking it; no step of a delivery, of an
\* archive operation (the deletion of a sent archive included), of the
\* cover handling or of the store does.
C25_OnlyEvictionRemovesAudio ==
    [][\A t \in Tracks :
          (mp3_ctime[t] > 0 /\ mp3_ctime'[t] = 0) => t \in Ids(removed_log')]_vars

\* An archive operation has sent and deleted its archive with the audio
\* files in place, and the pass at its end has evicted one of them.
C25_Witness ==
    /\ \E a \in Solo : a_pc[a] = "done" /\ a_chunks[a] # <<>>
    /\ zips = {}
    /\ \E t \in Tracks : mp3_ctime[t] = 0 /\ t \in Ids(removed_log)

\* ------------------------------------------- claims on the end of a pass

\* What a call of _enforce_storage_quota on the tree as it stands returns with.
Returned == EnforceStorageQuota(Tree, max_storage_bytes, quota_paused, Env)

QuotaEnabled == max_storage_bytes # 0 /\ ~quota_paused

OverCeiling(st) == DirectorySize(st) > max_storage_bytes

\* The files the next turn of the loop would take.
NextBatch(st) == FirstBatch(SortedByCtime(st.ctime, Mp3Files(st.ctime)))

\* The three ends of the loop.
EndsOfLoop(r) ==
    \/ ~OverCeiling(r)
    \/ Mp3Files(r.ctime) = {}
    \/ ~r.deleted_something

\* C26 as stated: with the quota enabled the call returns at or under the
\* ceiling, or with no .mp3 left, or after a turn that deleted nothing, and
\* never over the ceiling while a .mp3 that can be unlinked is there.
C26_AsStated ==
    QuotaEnabled =>
        /\ EndsOfLoop(Returned)
        /\ OverCeiling(Returned) => Mp3Files(Returned.ctime) \subseteq unlink_fails

\* C26 amended: with the quota enabled the call returns at or under the
\* ceiling, or with no .mp3 left, or after a turn that deleted nothing; it
\* returns over the ceiling with a .mp3 there only when none of the
\* CLEANUP_BATCH oldest ones can be unlinked, younger ones that can be
\* unlinked staying where they are.
C26_ReturnsAtAnEndOfLoop ==
    QuotaEnabled =>
        /\ EndsOfLoop(Returned)
        /\ (OverCeiling(Returned) /\ Mp3Files(Returned.ctime) # {}) =>
              /\ ~Returned.deleted_something
              /\ \A i \in DOMAIN NextBatch(Returned) :
                    NextBatch(Returned)[i] \in unlink_fails

\* A pass has unlinked the oldest file and then stalled on the two that
\* are left: the tree is over the ceiling with .mp3 files in it.
C26_Witness ==
    /\ QuotaEnabled
    /\ Len(removed_log) = 1
    /\ OverCeiling(Tree)
    /\ Cardinality(Mp3Files(mp3_ctime)) = 2
    /\ Returned.passes = 1
    /\ ~Returned.deleted_something

\* C27: when no file of a turn's batch can be unlinked the loop ends with
\* that turn: a call that meets such a batch first takes one turn and
\* leaves the tree as it was, every turn of a call but its last has
\* unlinked a file, and the call returns to download_track, which goes on.
C27_StallEndsTheLoop ==
    QuotaEnabled =>
        /\ Returned.passes <= Len(Returned.removed) + 1
        /\ (OverCeiling(Tree) /\ NextBatch(Tree) # <<>>
              /\ \A i \in DOMAIN NextBatch(Tree) : NextBatch(Tree)[i] \in unlink_fails) =>
              /\ Returned.passes = 1
              /\ Returned.removed = <<>>
              /\ Returned.ctime = mp3_ctime
              /\ Returned.size = mp3_size
              /\ Returned.covers = covers
              /\ Returned.rows = rows

\* Three files over the ceiling, the two oldest refusing to be unlinked:
\* the call takes its one turn and changes nothing.
C27_Witness ==
    /\ QuotaEnabled
    /\ OverCeiling(Tree)
    /\ Cardinality(Mp3Files(mp3_ctime)) = 3
    /\ Len(NextBatch(Tree)) = 2
    /\ \A i \in DOMAIN NextBatch(Tree) : NextBatch(Tree)[i] \in unlink_fails
    /\ Returned.passes = 1
    /\ Returned.removed = <<>>

\* --------------------------------------------------- claims on the metadata

\* Where step x stands in the steps of a call, 0 when it is not among them.
StepAt(steps, x) ==
    IF \E i \in DOMAIN steps : steps[i] = x
    THEN CHOOSE i \in DOMAIN steps : steps[i] = x
    ELSE 0

\* C30: a call of download_and_send_track asks the metadata service exactly
\* when get_track returned no record; the record fetched is handed to
\* upsert_track right after, before the cover and before any search,
\* download or sending; a fetch that raised is followed by none of them.
C30_LiveFetchOnlyOnMiss ==
    t_call.path # "none" =>
        /\ t_steps[1] = "get_track"
        /\ StepAt(t_steps, "get_track_info") # 0 <=> ~t_call.cached
        /\ ~t_call.cached =>
              /\ t_steps[2] = "get_track_info"
              /\ \A i \in DOMAIN t_steps :
                    t_steps[i] \in {"cover", "search", "download", "answer_audio"} =>
                       /\ StepAt(t_steps, "upsert_track") = 3
                       /\ i > 3
        /\ t_call.cached => StepAt(t_steps, "upsert_track") = 0

\* A call that found no record fetched it, stored it, and went on to
\* download and send the track.
C30_Witness ==
    /\ ~t_call.cached
    /\ t_call.path = "downloaded"
    /\ t_steps = <<"get_track", "get_track_info", "upsert_track", "cover",
                   "search", "download", "answer_audio">>

\* ------------------------------------------------ claims on the counters

\* The tasks whose finally block has counted their track.
CountedTasks == {i \in CountTasks : c_task[i] \in {"editing", "done", "raised"}}

\* C28: in send_tracks_one_by_one 0 <= failed_count <= completed_count <=
\* total_tracks at every point, whatever the order the tasks run in;
\* completed_count is the number of tasks that have counted their track,
\* and total_tracks once the batch has finished; the final edit names
\* total_tracks - failed_count of total_tracks when failed_count is not 0
\* and is the success text when it is 0.
C28_CountersInOrder ==
    c_pc # "idle" =>
        /\ 0 <= failed_count
        /\ failed_count <= completed_count
        /\ completed_count <= c_total
        /\ completed_count = Cardinality(CountedTasks)
        /\ c_pc = "reported" =>
              /\ completed_count = c_total
              /\ failed_count > 0 <=>
                    c_report = <<"with_failures", c_total - failed_count, c_total>>
              /\ failed_count = 0 <=> c_report = <<"ok">>

\* A batch of four tracks has finished with one failed track.
C28_Witness ==
    /\ c_pc = "reported"
    /\ c_total = 4
    /\ completed_count = 4
    /\ failed_count = 1
    /\ c_report = <<"with_failures", 3, 4>>

\* ------------------------------------- claims on the limits of concurrency

\* C29: at most 10 tasks of one batch are inside its semaphore at any time,
\* and at most 4 work items of all batches together run on the worker
\* threads, however many tasks are waiting.
C29_AtMostTenAndFour ==
    /\ \A b \in PoolBatches : Inside(b) <= SemaphoreSlots
    /\ Running <= MaxWorkers

\* Both limits are met: 10 tasks of a batch of 11 are inside and the 11th
\* waits, 4 work items run and others are queued, and the two batches
\* together have more than 10 tasks inside.
C29_Witness ==
    /\ \E b \in PoolBatches :
          p_tracks[b] = MaxPoolTracks /\ Inside(b) = SemaphoreSlots /\ p_waiting[b] = 1
    /\ Running = MaxWorkers
    /\ \E b \in PoolBatches : p_queued[b] > 0
    /\ SumTo([b \in PoolBatches |-> Inside(b)], NPoolBatches) > SemaphoreSlots

\* --------------------------------------- claims on overlapping deliveries

\* The oldest .mp3 files of the tree.
Oldest(ct) == {t \in Mp3Files(ct) : \A u \in Mp3Files(ct) : ct[t] <= ct[u]}

\* C31: nothing keeps an enforcement pass from a file in use.  The pass
\* that a delivery's download_track runs before it returns, with the tree
\* over the ceiling, unlinks the oldest audio file also when another
\* delivery has obtained that file and has not sent it yet; that delivery
\* is left where it stands, and its sending then finds no file.
C31_EvictionTakesFilesInUse ==
    [][\A d \in Deliveries :
          (/\ d_pc[d] \in {"searching", "downloaded"}
           /\ d_pc'[d] = "sending"
           /\ max_storage_bytes > 0
           /\ DirectorySize(Tree) > max_storage_bytes) =>
             /\ \A t \in Oldest(mp3_ctime) : mp3_ctime'[t] = 0 /\ t \in Ids(removed_log')
             /\ \A e \in Deliveries \ {d} : d_pc'[e] = d_pc[e]]_vars

\* The download of one delivery has returned and its pass has unlinked the
\* file of another track, which a second delivery had obtained and was
\* about to send.
C31_Witness ==
    \E d, e \in Deliveries :
        /\ d # e
        /\ d_track[d] # d_track[e]
        /\ d_pc[d] = "sending"
        /\ d_pc[e] = "sending"
        /\ mp3_ctime[d_track[e]] = 0
        /\ d_track[e] \in Ids(removed_log)

\* C32: when download_track returns a path, after a download or a cache
\* hit, the file of that path is there: the pass it runs before returning
\* does not unlink the file it returns.
C32_ReturnedFileExists ==
    [][\A d \in Deliveries :
          (d_pc[d] \in {"searching", "downloaded"} /\ d_pc'[d] = "sending") =>
             mp3_ctime'[d_track[d]] > 0]_vars

\* C33: no two deliveries have the download library at work on the same
\* track_id at the same time.
C33_OneDownloadPerTrack ==
    \A d, e \in Deliveries :
        (d # e /\ d_pc[d] = "downloading" /\ d_pc[e] = "downloading") =>
           d_track[d] # d_track[e]

\* ------------------------------------------------- claims on the chunks

\* The chunks of operation a are in hand: an archive is being written or
\* sent, or all have been sent.
Chunked(a) ==
    \/ a_pc[a] \in {"creating", "sending"}
    \/ a_pc[a] = "report" /\ a_paths[a] # <<>>

\* The chunks a path is a member of.
ChunksOf(chunks, t) == {j \in DOMAIN chunks : Count(chunks[j], t) > 0}

\* What C36 and its amendment share: no chunk is empty, the chunks put one
\* after the other are downloaded_paths, and the archives are numbered
\* from 1 in the order of the chunks, one number per chunk.
OrderedPartition(a) ==
    /\ a_chunks[a] # <<>>
    /\ \A j \in DOMAIN a_chunks[a] : a_chunks[a][j] # <<>>
    /\ Members(a_chunks[a]) = a_paths[a]
    /\ a_part[a] \in 1..Len(a_chunks[a])
    /\ \A z \in zips : z.owner = a => z.part \in 1..a_part[a]
    /\ a_pc[a] = "sending" => \E z \in zips : z.owner = a /\ z.part = a_part[a]
    /\ a_pc[a] = "report" => a_part[a] = Len(a_chunks[a])

\* C36 as stated: the chunks are an ordered partition of downloaded_paths
\* and every downloaded file is a member of exactly one chunk.
C36_AsStated ==
    \A a \in Solo :
        Chunked(a) =>
            /\ OrderedPartition(a)
            /\ \A i \in DOMAIN a_paths[a] :
                  Cardinality(ChunksOf(a_chunks[a], a_paths[a][i])) = 1

\* C36 amended: the chunks are an ordered partition of downloaded_paths,
\* entry by entry: the file of a track the collection lists once is a
\* member of exactly one chunk, and the file of a track listed more than
\* once is a member as often as it is listed, in one chunk or in several.
C36_ChunksPartitionTheList ==
    \A a \in Solo :
        Chunked(a) =>
            /\ OrderedPartition(a)
            /\ \A t \in Tracks :
                  /\ Count(Members(a_chunks[a]), t) = Count(a_paths[a], t)
                  /\ Count(a_paths[a], t) = 1 =>
                        Cardinality(ChunksOf(a_chunks[a], t)) = 1

\* Two files that do not fit one archive: two chunks of one file each, the
\* second archive written as part 2.
C36_Witness ==
    \E a \in Solo :
        /\ a_pc[a] = "sending"
        /\ Len(a_paths[a]) = 2
        /\ a_paths[a][1] # a_paths[a][2]
        /\ a_chunks[a] = <<<<a_paths[a][1]>>, <<a_paths[a][2]>>>>
        /\ a_part[a] = 2

\* ------------------------------------------------ claims on the loop's end

\* C34: a call of _enforce_storage_quota returns, whatever files refuse to
\* be unlinked: every turn of the while loop either leaves the directory
\* with fewer .mp3 files than it found or is the last turn of the call, no
\* step of the call adds a file, and the call reaches its return.
C34_LoopTerminates ==
    /\ [][q_pc = "batch" =>
            \/ Cardinality(Mp3Files(mp3_ctime')) < Cardinality(Mp3Files(mp3_ctime))
            \/ q_pc' = "returned"]_vars
    /\ [][Mp3Files(mp3_ctime') \subseteq Mp3Files(mp3_ctime)]_vars
    /\ <>(q_pc = "returned")

\* A call has returned after two turns: the first unlinked one file of
\* its batch while the other refused, the second unlinked nothing.
C34_Witness ==
    /\ q_pc = "returned"
    /\ q_passes = 2
    /\ ~q_deleted
    /\ Len(removed_log) = 1
    /\ Mp3Files(mp3_ctime) # {}
    /\ Mp3Files(mp3_ctime) \subseteq unlink_fails

\* ---------------------------------------------- claims on the overshoot

\* The .mp3 files of the tree as it stands, oldest first.
OldestFirst == SortedByCtime(mp3_ctime, Mp3Files(mp3_ctime))

\* The tree without its k oldest .mp3 files and their covers.
PrefixGone(k) ==
    LET gone == {OldestFirst[i] : i \in 1..k}
    IN [Tree EXCEPT !.size = [t \in Tracks |-> IF t \in gone THEN 0 ELSE @[t]],
                    !.covers = @ \ gone]

\* The length of the shortest oldest-first prefix whose removal brings the
\* total to or under the ceiling; every file when no prefix does.
ShortestPrefix ==
    LET enough == {k \in 0..Len(OldestFirst) :
                      DirectorySize(PrefixGone(k)) <= max_storage_bytes}
    IN IF enough = {} THEN Len(OldestFirst)
       ELSE CHOOSE k \in enough : \A j \in enough : k <= j

\* C35: with the quota enabled a call that finds the total at or under the
\* ceiling removes nothing; one that finds it over the ceiling, with every
\* unlink succeeding, removes the oldest files in order and at most
\* CLEANUP_BATCH - 1 of them beyond the shortest prefix that brings the
\* total to or under the ceiling.
C35_OvershootBelowABatch ==
    QuotaEnabled =>
        /\ ~OverCeiling(Tree) =>
              /\ Returned.removed = <<>>
              /\ Returned.ctime = mp3_ctime
              /\ Returned.size = mp3_size
              /\ Returned.covers = covers
              /\ Returned.rows = rows
        /\ (OverCeiling(Tree) /\ unlink_fails = {} /\ ~cover_unlink_fails) =>
              /\ Len(Returned.removed) <= ShortestPrefix + CLEANUP_BATCH - 1
              /\ Len(Returned.removed) <= Len(OldestFirst)
              /\ \A i \in DOMAIN Returned.removed :
                    Returned.removed[i].id = OldestFirst[i]

\* A call with every unlink succeeding has evicted two files and left a
\* third, and the tree would be under the ceiling with the second of them
\* back in it, whatever its size: one file went beyond the shortest prefix.
C35_Witness ==
    /\ QuotaEnabled
    /\ unlink_fails = {} /\ ~cover_unlink_fails
    /\ Len(removed_log) = CLEANUP_BATCH
    /\ Mp3Files(mp3_ctime) # {}
    /\ \A s \in Sizes : DirectorySize(Tree) + s + CoverBytes <= max_storage_bytes

\* ------------------------------------------- claims on the kind that handles

\* An id that is not None, as is_spotify_link counts it.
Present(r) == r # Absent

\* C37: a text that process_track_link does not ignore goes to the flow of
\* the first kind, in the order playlist, album, track, whose extractor
\* returned an id that is not None; a text with such a playlist or album id
\* gets no "searching" status message of the track flow, and the reply
\* "could not obtain the track id" is never given.
C37_HandledByFirstPresentKind ==
    (l_pc = "handled" /\ route # "ignored") =>
        LET r(kind) == Extractor(kind, patched, text)
        IN  /\ route = ExpectedRoute(Present(r("playlist")), Present(r("album")),
                                     Present(r("track")))
            /\ (Present(r("playlist")) \/ Present(r("album"))) => l_status = "none"
            /\ route # "no_id"
            /\ "no_track_id" \notin l_replies

====
